---- MODULE Spec2Model ----
(***************************************************************************)
(* myconfig: macOS configuration backup / restore.                         *)
(*                                                                         *)
(* The module models, from the sources, the sensitivity predicates         *)
(* (utils.py, core.py), the confirmation prompt (utils.py), the dotfiles   *)
(* export / restore of both front ends (core.py components and the         *)
(* actions/ functions), the component restore of Homebrew / MAS / VSCode   *)
(* and the export orchestration with its manifest.                         *)
(*                                                                         *)
(* Paths, answers and file names are strings; TLC evaluates Len, SubSeq,   *)
(* Head, Tail and \o on strings, so the string functions of the code       *)
(* (lower, strip, substring test, basename, relpath) are computed here     *)
(* character by character.                                                 *)
(***************************************************************************)
EXTENDS Integers, Sequences, FiniteSets, TLC

VARIABLES
    probe,      \* the path handed to the sensitivity predicates
    verdict,    \* their answers for probe, or NoVerdict before the call
    cfg,        \* AppConfig: the run-time options, never mutated during a run
    stdin,      \* the lines still to be read by input(); <<>> is end of input
    answer,     \* what the last Logger.confirm call returned and read
    front,      \* the front end that runs: "manager" (core.py) or "action" (actions/)
    rpc,        \* restore: the step the run is at
    tools,      \* the external tools `command -v` finds
    bdir,       \* the backup directory: NoDir, or its artifacts with their sizes
    trace,      \* restore: the prompts issued and the commands run, in order
    restored,   \* restore: the components whose restore reported an action
    home,       \* the files of the home directory with their contents
    dotball,    \* the backup's dotfiles.tar.gz: whether it exists, and its files
    now,        \* the clock, in seconds
    shadowed,   \* history: the <<file, content>> a restore has overwritten in this home
    snap,       \* history: the home directory the archive was made from
    last,       \* history: the last dotfiles operation and the home it found
    used,       \* how many exports, edits and restores have run
    impl,       \* export: "core" (core.py), "package" (core/backup.py) or "action" (do_export)
    epc,        \* export: the step the run is at
    installed,  \* export: the tools on PATH
    machine,    \* export: what the machine has to export
    outdir,     \* export: the output directory
    outdir0,    \* history: the output directory before the export
    events,     \* export: what the run has done, in order
    manifest,   \* export: the entries written to MANIFEST.txt
    fault,      \* export: what goes wrong in this run, and at which step
    spawned,    \* export: the commands started in a subprocess
    status,     \* export: the status SystemExit carries, NoStatus without one
    archive,    \* unpack: the archive file: whether it exists, is damaged, its members
    unpacked,   \* unpack: what unpack returned, "dir" or "none"
    prior,      \* history: the export run before this one, and the flag switched since
    temp_dir,   \* compressed export: the directory tempfile.mkdtemp made
    success_count,  \* BackupManager.export: the steps counted as exported
    total_count,    \* BackupManager.export: the components whose export was called
    ipc,        \* defaults import: the command of the script that runs next
    plists,     \* defaults import: the domains of the backup's plists still to import
    live,       \* defaults import: the registered domains with their values
    snapshots,  \* defaults import: the domains saved to $HOME/defaults_backup_*, with the value saved
    restarted,  \* defaults import: the processes killall has restarted
    listing,    \* domain list: the lines of the file
    entries     \* domain list: what each reader yields for listing

sensVars == <<probe, verdict>>

confVars == <<stdin, answer>>

restoreVars == <<front, rpc, tools, bdir, trace, restored>>

dotVars == <<home, dotball, now, shadowed, snap, last, used>>

defaultsVars == <<ipc, plists, live, snapshots, restarted, listing, entries>>

exportVars == <<impl, epc, installed, machine, outdir, outdir0, events, manifest,
               fault, spawned, status, archive, unpacked, prior, temp_dir,
               success_count, total_count>>

vars == <<probe, verdict, cfg, stdin, answer, front, rpc, tools, bdir, trace, restored,
          home, dotball, now, shadowed, snap, last, used,
          impl, epc, installed, machine, outdir, outdir0, events, manifest,
          fault, spawned, status, archive, unpacked, prior, temp_dir,
          success_count, total_count,
          ipc, plists, live, snapshots, restarted, listing, entries>>

(***************************************************************************)
(* String helpers: what str.lower, str.strip, `in`, startswith / endswith  *)
(* compute on ASCII text.                                                  *)
(***************************************************************************)
LowerLetters == "abcdefghijklmnopqrstuvwxyz"

UpperLetters == "ABCDEFGHIJKLMNOPQRSTUVWXYZ"

CharAt(s, i) == SubSeq(s, i, i)

\* 0 when c does not occur in s, else the first position of c in s
IndexIn(c, s) ==
    IF \E j \in 1..Len(s) : CharAt(s, j) = c
    THEN CHOOSE j \in 1..Len(s) :
            CharAt(s, j) = c /\ \A k \in 1..(j - 1) : CharAt(s, k) # c
    ELSE 0

LowerChar(c) ==
    LET i == IndexIn(c, UpperLetters)
    IN IF i = 0 THEN c ELSE CharAt(LowerLetters, i)

UpperChar(c) ==
    LET i == IndexIn(c, LowerLetters)
    IN IF i = 0 THEN c ELSE CharAt(UpperLetters, i)

RECURSIVE Lower(_)
Lower(s) == IF Len(s) = 0 THEN "" ELSE LowerChar(CharAt(s, 1)) \o Lower(Tail(s))

RECURSIVE Upper(_)
Upper(s) == IF Len(s) = 0 THEN "" ELSE UpperChar(CharAt(s, 1)) \o Upper(Tail(s))

\* Python's `p in s`
Contains(s, p) ==
    \E i \in 1..(Len(s) - Len(p) + 1) : SubSeq(s, i, i + Len(p) - 1) = p

StartsWith(s, p) == Len(p) <= Len(s) /\ SubSeq(s, 1, Len(p)) = p

EndsWith(s, p) ==
    Len(p) <= Len(s) /\ SubSeq(s, Len(s) - Len(p) + 1, Len(s)) = p

(***************************************************************************)
(* The sensitivity predicates.                                             *)
(***************************************************************************)
\* utils.is_sensitive_file: sensitive_patterns
UtilsSensitivePatterns ==
    { "id_rsa", "id_dsa", "id_ecdsa", "id_ed25519",
      ".pem", ".key", ".p12", ".pfx",
      "known_hosts", "authorized_keys",
      ".gnupg", "secring.gpg", "pubring.gpg",
      "password", "passwd", "secret", "token",
      "api_key", "private_key", "credential",
      ".db", ".sqlite", ".sqlite3",
      ".history", ".bash_history", ".zsh_history",
      "cache", ".cache", "tmp", ".tmp",
      ".aws/credentials", ".docker/config.json",
      "keychain", ".keychain" }

\* DotfilesComponent._is_sensitive_file: sensitive_patterns
CoreSensitivePatterns ==
    { "private_key", "id_rsa", "id_dsa", "id_ecdsa", "id_ed25519",
      ".pem", ".key", ".p12", ".pfx",
      "password", "secret", "token", "auth",
      "known_hosts", "authorized_keys",
      "keychain", ".keychain" }

\* utils.is_sensitive_file(file_path): the path is lower-cased first
is_sensitive_file(file_path) ==
    LET lowered == Lower(file_path)
    IN \E pattern \in UtilsSensitivePatterns : Contains(lowered, pattern)

\* DotfilesComponent._is_sensitive_file(file_path): the path is used as given
_is_sensitive_file(file_path) ==
    \E pattern \in CoreSensitivePatterns : Contains(file_path, pattern)

(***************************************************************************)
(* Inputs of the predicates: a sensitive or an ordinary name, in lower,    *)
(* upper or capitalised case, at the end or in the middle of a path.       *)
(***************************************************************************)
\* the substrings the specification lists as sensitive
ListedSensitive ==
    { "id_rsa", ".pem", "password", "secret", "token",
      "known_hosts", "authorized_keys", ".history", "keychain" }

OrdinaryNames == { ".zshrc", ".gitconfig", ".vimrc", "init.lua" }

ProbePrefixes == { "~/", "~/.ssh/", "/Users/u/.config/nvim/" }

ProbeSuffixes == { "", ".bak", "/file" }

Capitalised(s) ==
    IF Len(s) < 2 THEN Upper(s)
    ELSE CharAt(s, 1) \o UpperChar(CharAt(s, 2)) \o SubSeq(s, 3, Len(s))

Casings(s) == { s, Upper(s), Capitalised(s) }

ProbePaths ==
    { pre \o name \o suf :
        pre \in ProbePrefixes,
        name \in UNION { Casings(n) : n \in ListedSensitive \cup OrdinaryNames },
        suf \in ProbeSuffixes }

NoVerdict == [called |-> FALSE, utils |-> FALSE, core |-> FALSE]

SensStart ==
    /\ probe \in ProbePaths
    /\ verdict = NoVerdict

SensIdle ==
    /\ probe = "~/.zshrc"
    /\ verdict = NoVerdict

\* one call of each implementation on the same path
Classify ==
    /\ ~verdict.called
    /\ verdict' = [called |-> TRUE,
                   utils  |-> is_sensitive_file(probe),
                   core   |-> _is_sensitive_file(probe)]
    /\ UNCHANGED <<probe, cfg, confVars, restoreVars, dotVars, exportVars, defaultsVars>>

(***************************************************************************)
(* AppConfig.  enable_npm, enable_pip_user, enable_pipx and                *)
(* enable_incremental keep their default (False) and are left out.         *)
(***************************************************************************)
DefaultConfig ==
    [interactive         |-> TRUE,
     dry_run             |-> FALSE,
     enable_mas          |-> TRUE,
     enable_vscode       |-> TRUE,
     enable_defaults     |-> TRUE,
     enable_launchagents |-> TRUE]

(***************************************************************************)
(* Logger.confirm: the confirmation prompt.                                *)
(***************************************************************************)
\* the characters str.strip() removes that a typed line can hold
Whitespace == { " ", "\t" }

RECURSIVE LStrip(_)
LStrip(s) ==
    IF Len(s) > 0 /\ CharAt(s, 1) \in Whitespace THEN LStrip(Tail(s)) ELSE s

RECURSIVE RStrip(_)
RStrip(s) ==
    IF Len(s) > 0 /\ CharAt(s, Len(s)) \in Whitespace
    THEN RStrip(SubSeq(s, 1, Len(s) - 1))
    ELSE s

Strip(s) == RStrip(LStrip(s))

\* the answers Logger.confirm accepts: ans in ("y","yes")
YesAnswers == { "y", "yes" }

\* Logger.confirm with the lower-casing of the answer left out
confirm_CaseSensitive(interactive, inp) ==
    IF ~interactive
    THEN [yes |-> TRUE, rest |-> inp, prompted |-> FALSE, reads |-> 0]
    ELSE IF inp = <<>>
         THEN [yes |-> FALSE, rest |-> inp, prompted |-> TRUE, reads |-> 1]
         ELSE [yes      |-> Strip(Head(inp)) \in YesAnswers,
               rest     |-> Tail(inp),
               prompted |-> TRUE,
               reads    |-> 1]

\* Logger.confirm(prompt) on the input `inp`: the result, the input left, and
\* whether the prompt was written and input() was called
confirm(interactive, inp) ==
    IF ~interactive
    THEN [yes |-> TRUE, rest |-> inp, prompted |-> FALSE, reads |-> 0]
    ELSE IF inp = <<>>
         THEN [yes |-> FALSE, rest |-> inp, prompted |-> TRUE, reads |-> 1]
         ELSE [yes      |-> Lower(Strip(Head(inp))) \in YesAnswers,
               rest     |-> Tail(inp),
               prompted |-> TRUE,
               reads    |-> 1]

\* logger.confirm_action(logger, prompt, interactive), which
\* CommandExecutor.confirm delegates to
confirm_action(interactive, inp) == confirm(interactive, inp)

AnswerWords == { "y", "yes", "n", "no", "", "ye", "yes!", "yy", "y es", "ok" }

AnswerPads == { "", " ", "\t", "  " }

AnswerLines ==
    { l \o w \o r : l \in AnswerPads, r \in AnswerPads,
                    w \in UNION { Casings(a) : a \in AnswerWords } }

NoAnswer == [called |-> FALSE, yes |-> FALSE, reads |-> 0, line |-> "", eof |-> FALSE]

ConfStart ==
    /\ stdin \in { <<>> } \cup { <<l>> : l \in AnswerLines }
    /\ answer = NoAnswer

ConfIdle ==
    /\ stdin = <<>>
    /\ answer = NoAnswer

\* one call of Logger.confirm
ConfirmCall ==
    /\ ~answer.called
    /\ LET r == confirm(cfg.interactive, stdin)
       IN /\ answer' = [called |-> TRUE, yes |-> r.yes, reads |-> r.reads,
                        line |-> IF stdin = <<>> THEN "" ELSE Head(stdin),
                        eof |-> stdin = <<>>]
          /\ stdin' = r.rest
    /\ UNCHANGED <<cfg, sensVars, defaultsVars, restoreVars, dotVars, exportVars>>

(***************************************************************************)
(* Restore.  Two front ends replay a backup directory: BackupManager.      *)
(* restore (core.py) calls restore on its six components in order;         *)
(* do_restore (actions/restore.py) runs its sections in its own order.     *)
(* A step of rpc is one component's restore, or one section of do_restore. *)
(***************************************************************************)
Artifacts ==
    { "ENVIRONMENT.txt", "Brewfile", "mas.list", "vscode_extensions.txt",
      "dotfiles.tar.gz", "defaults", "LaunchAgents" }

\* BackupManager.__init__: self.components
ManagerOrder == <<"Homebrew", "MAS", "VSCode", "Dotfiles", "Defaults", "LaunchAgents">>

\* do_restore: the order of its sections (npm / pip are disabled by default)
ActionOrder == <<"Homebrew", "MAS", "Dotfiles", "VSCode", "Defaults", "LaunchAgents">>

Order == IF front = "manager" THEN ManagerOrder ELSE ActionOrder

PositionOf(seq, x) == CHOOSE i \in 1..Len(seq) : seq[i] = x

\* the step after component c: the next component, or "done" after the last
After(c) ==
    LET i == PositionOf(Order, c)
    IN IF i = Len(Order) THEN "done" ELSE Order[i + 1]

\* os.path.exists / os.path.isdir of an artifact of the backup directory
Has(a) == bdir.isdir /\ a \in DOMAIN bdir.files

\* the file or directory of a backup that a component restores from
ArtifactOf(c) ==
    CASE c = "Homebrew"     -> "Brewfile"
      [] c = "MAS"          -> "mas.list"
      [] c = "VSCode"       -> "vscode_extensions.txt"
      [] c = "Dotfiles"     -> "dotfiles.tar.gz"
      [] c = "Defaults"     -> "defaults"
      [] c = "LaunchAgents" -> "LaunchAgents"

RECURSIVE SumSizes(_, _)
SumSizes(f, S) ==
    IF S = {} THEN 0
    ELSE LET x == CHOOSE y \in S : TRUE
         IN f[x] + SumSizes(f, S \ {x})

\* verify_backup: total_size < 1024 fails
VerifyThreshold == 1024

\* the size of a directory entry whose os.path.getsize raises OSError (a
\* symbolic link whose target is gone): os.walk lists it among the files,
\* os.path.exists says False for it
NoSize == -1

\* os.path.exists(os.path.join(backup_dir, file))
ExistsIn(d, file) == file \in DOMAIN d.files /\ d.files[file] # NoSize

\* the files of a directory whose size can be read
Readable(d) == { p \in DOMAIN d.files : d.files[p] # NoSize }

\* utils.verify_backup(backup_dir, log) on a directory record: the directory
\* must exist and hold ENVIRONMENT.txt; the size check fails below the
\* threshold, and is passed over when the sum raises
verify_backup(d) ==
    /\ d.isdir
    /\ ExistsIn(d, "ENVIRONMENT.txt")
    /\ \/ Readable(d) # DOMAIN d.files
       \/ SumSizes(d.files, DOMAIN d.files) >= VerifyThreshold

\* a prompt of CommandExecutor.confirm, answered by the typed line
Ask(id, line) ==
    LET r == confirm_action(cfg.interactive, <<line>>)
    IN [yes |-> r.yes,
        ev  |-> IF r.prompted THEN <<[k |-> "prompt", id |-> id, yes |-> r.yes]>>
                ELSE <<>>]

\* a prompt of Logger.confirm, answered by the typed line
AskLog(id, line) ==
    LET r == confirm(cfg.interactive, <<line>>)
    IN [yes |-> r.yes,
        ev  |-> IF r.prompted THEN <<[k |-> "prompt", id |-> id, yes |-> r.yes]>>
                ELSE <<>>]

\* CommandExecutor.run / utils.run: under dry_run the command is only logged
RunEv(id) ==
    <<[k |-> IF cfg.dry_run THEN "dry-run" ELSE "run", id |-> id, yes |-> TRUE]>>

\* the tools on PATH after an install command that did (ok) or did not succeed
Installed(tool, ok) == IF ok /\ ~cfg.dry_run THEN tools \cup {tool} ELSE tools

Nothing == [ev |-> <<>>, acted |-> FALSE, tools |-> tools]

\* the lines typed at a prompt in the restore runs
TypedLines == { "y", "n" }

\* what a step can read: no line when the run is not interactive, a second
\* line only in the Homebrew step (two prompts), an install outcome only in
\* the steps that install a tool
FirstLines == IF cfg.interactive THEN TypedLines ELSE { "y" }

SecondLines(c) == IF cfg.interactive /\ c = "Homebrew" THEN TypedLines ELSE { "y" }

InstallOutcomes(c) == IF c \in { "Homebrew", "MAS" } THEN BOOLEAN ELSE { TRUE }

\* HomebrewComponent.restore
HomebrewRestore(a1, a2, ok) ==
    IF ~Has("Brewfile") THEN Nothing
    ELSE LET need == "brew" \notin tools
             q1   == Ask("Install Homebrew?", a1)
             inst == need /\ q1.yes
             q2   == Ask("Execute brew bundle install?", a2)
         IN [ev    |-> (IF need THEN q1.ev ELSE <<>>)
                       \o (IF inst THEN RunEv("install Homebrew") ELSE <<>>)
                       \o q2.ev
                       \o (IF q2.yes THEN RunEv("brew bundle") ELSE <<>>),
             acted |-> q2.yes,
             tools |-> IF inst THEN Installed("brew", ok) ELSE tools]

\* MASComponent.restore
MASRestore(a1, a2, ok) ==
    IF ~Has("mas.list") THEN Nothing
    ELSE LET need == "mas" \notin tools
             q    == Ask("Install MAS list now?", a1)
         IN [ev    |-> (IF need THEN RunEv("brew install mas") ELSE <<>>)
                       \o q.ev
                       \o (IF q.yes THEN RunEv("mas install") ELSE <<>>),
             acted |-> q.yes,
             tools |-> IF need THEN Installed("mas", ok) ELSE tools]

\* VSCodeComponent.restore
VSCodeRestore(a1, a2, ok) ==
    IF ~Has("vscode_extensions.txt") \/ "code" \notin tools THEN Nothing
    ELSE LET q == Ask("Start installing VS Code extensions?", a1)
         IN [ev    |-> q.ev \o (IF q.yes THEN RunEv("code --install-extension") ELSE <<>>),
             acted |-> q.yes,
             tools |-> tools]

\* DotfilesComponent.restore, as the commands it runs
DotfilesRestore(a1, a2, ok) ==
    IF ~Has("dotfiles.tar.gz") THEN Nothing
    ELSE LET q == Ask("Overwrite existing files (auto backup)?", a1)
         IN [ev    |-> q.ev \o (IF q.yes
                                THEN RunEv("tar -xzf dotfiles.tar.gz")
                                     \o RunEv("backup and rsync dotfiles")
                                ELSE <<>>),
             acted |-> q.yes,
             tools |-> tools]

\* DefaultsComponent.restore
DefaultsRestore(a1, a2, ok) ==
    IF ~Has("defaults") THEN Nothing
    ELSE LET q == Ask("Import and refresh Dock/Finder?", a1)
         IN [ev    |-> q.ev \o (IF q.yes THEN RunEv("defaults import") ELSE <<>>),
             acted |-> q.yes,
             tools |-> tools]

\* LaunchAgentsComponent.restore
LaunchAgentsRestore(a1, a2, ok) ==
    IF ~Has("LaunchAgents") THEN Nothing
    ELSE LET q == Ask("Load LaunchAgents?", a1)
         IN [ev    |-> RunEv("mkdir -p LaunchAgents") \o RunEv("cp LaunchAgents plists")
                       \o q.ev
                       \o (IF q.yes THEN RunEv("launchctl load") ELSE <<>>),
             acted |-> q.yes,
             tools |-> tools]

\* component.restore(backup_dir), dispatched on the component
ComponentRestore(c, a1, a2, ok) ==
    CASE c = "Homebrew"     -> HomebrewRestore(a1, a2, ok)
      [] c = "MAS"          -> MASRestore(a1, a2, ok)
      [] c = "VSCode"       -> VSCodeRestore(a1, a2, ok)
      [] c = "Dotfiles"     -> DotfilesRestore(a1, a2, ok)
      [] c = "Defaults"     -> DefaultsRestore(a1, a2, ok)
      [] c = "LaunchAgents" -> LaunchAgentsRestore(a1, a2, ok)

\* do_restore: the brew section
DoRestoreBrew(a1, a2, ok) ==
    LET need == "brew" \notin tools
        q1   == AskLog("Install Homebrew?", a1)
        inst == need /\ q1.yes
        q2   == AskLog("Execute brew bundle install?", a2)
        bun  == Has("Brewfile")
    IN [ev    |-> (IF need THEN q1.ev ELSE <<>>)
                  \o (IF inst THEN RunEv("install Homebrew") ELSE <<>>)
                  \o (IF bun THEN q2.ev ELSE <<>>)
                  \o (IF bun /\ q2.yes THEN RunEv("brew bundle") ELSE <<>>),
        acted |-> bun /\ q2.yes,
        tools |-> IF inst THEN Installed("brew", ok) ELSE tools]

\* do_restore: the mas section
DoRestoreMAS(a1, a2, ok) ==
    IF ~(cfg.enable_mas /\ Has("mas.list")) THEN Nothing
    ELSE LET need == "mas" \notin tools
             q    == AskLog("Install MAS list now?", a1)
         IN [ev    |-> (IF need THEN RunEv("brew install mas") ELSE <<>>)
                       \o q.ev
                       \o (IF q.yes THEN RunEv("mas install") ELSE <<>>),
             acted |-> q.yes,
             tools |-> IF need THEN Installed("mas", ok) ELSE tools]

\* do_restore: the dotfiles section, as the command it runs
DoRestoreDotfiles(a1, a2, ok) ==
    IF ~Has("dotfiles.tar.gz") THEN Nothing
    ELSE LET q == AskLog("Overwrite existing files (auto backup)?", a1)
         IN [ev    |-> q.ev \o (IF q.yes THEN RunEv("backup and rsync dotfiles") ELSE <<>>),
             acted |-> q.yes,
             tools |-> tools]

\* do_restore: the vscode section
DoRestoreVSCode(a1, a2, ok) ==
    IF ~(cfg.enable_vscode /\ Has("vscode_extensions.txt") /\ "code" \in tools)
    THEN Nothing
    ELSE LET q == AskLog("Start installing VS Code extensions?", a1)
         IN [ev    |-> q.ev \o (IF q.yes THEN RunEv("code --install-extension") ELSE <<>>),
             acted |-> q.yes,
             tools |-> tools]

\* do_restore: the defaults section
DoRestoreDefaults(a1, a2, ok) ==
    IF ~(cfg.enable_defaults /\ Has("defaults")) THEN Nothing
    ELSE LET q == AskLog("Import and refresh Dock/Finder?", a1)
         IN [ev    |-> q.ev \o (IF q.yes THEN RunEv("defaults import") ELSE <<>>),
             acted |-> q.yes,
             tools |-> tools]

\* do_restore: the LaunchAgents section
DoRestoreLaunchAgents(a1, a2, ok) ==
    IF ~(cfg.enable_launchagents /\ Has("LaunchAgents")) THEN Nothing
    ELSE LET q == AskLog("Load LaunchAgents?", a1)
         IN [ev    |-> RunEv("mkdir -p LaunchAgents") \o RunEv("cp LaunchAgents plists")
                       \o q.ev
                       \o (IF q.yes THEN RunEv("launchctl load") ELSE <<>>),
             acted |-> q.yes,
             tools |-> tools]

\* do_restore, one section
SectionRestore(c, a1, a2, ok) ==
    CASE c = "Homebrew"     -> DoRestoreBrew(a1, a2, ok)
      [] c = "MAS"          -> DoRestoreMAS(a1, a2, ok)
      [] c = "VSCode"       -> DoRestoreVSCode(a1, a2, ok)
      [] c = "Dotfiles"     -> DoRestoreDotfiles(a1, a2, ok)
      [] c = "Defaults"     -> DoRestoreDefaults(a1, a2, ok)
      [] c = "LaunchAgents" -> DoRestoreLaunchAgents(a1, a2, ok)

\* the backup directories of the restore runs: a missing directory, a
\* directory without ENVIRONMENT.txt, and every choice of the package
\* artifacts beside ENVIRONMENT.txt, with the three directory-level artifacts
\* (dotfiles.tar.gz, defaults/, LaunchAgents/) all present or all absent
ArtifactSize(a) == IF a = "ENVIRONMENT.txt" THEN 120 ELSE 2048

PackageArtifacts == { "Brewfile", "mas.list", "vscode_extensions.txt" }

TailArtifacts == { "dotfiles.tar.gz", "defaults", "LaunchAgents" }

BackupDir(S) == [isdir |-> TRUE, files |-> [a \in S |-> ArtifactSize(a)]]

NoBackupDir == [isdir |-> FALSE, files |-> [a \in {} |-> 0]]

BackupChoices ==
    { NoBackupDir, BackupDir(PackageArtifacts) }
    \cup
    { BackupDir({ "ENVIRONMENT.txt" } \cup S \cup T) :
        S \in SUBSET PackageArtifacts, T \in { {}, TailArtifacts } }

ConfigChoices ==
    { [DefaultConfig EXCEPT !.interactive = i, !.enable_mas = m, !.enable_vscode = v] :
        i \in BOOLEAN, m \in BOOLEAN, v \in BOOLEAN }

RestoreStart ==
    /\ front \in { "manager", "action" }
    /\ rpc = "start"
    /\ tools \in SUBSET { "brew", "mas", "code" }
    /\ bdir \in BackupChoices
    /\ trace = <<>>
    /\ restored = {}

RestoreIdle ==
    /\ front = "manager"
    /\ rpc = "idle"
    /\ tools = {}
    /\ bdir = NoBackupDir
    /\ trace = <<>>
    /\ restored = {}

\* a line of the log that is neither a prompt nor a command
LogEv(level, id) == <<[k |-> level, id |-> id, yes |-> FALSE]>>

\* os.path.isdir with the test left out
isdir_Always(d) == TRUE

\* os.path.isdir(backup_dir)
isdir(d) == d.isdir

\* BackupManager.restore up to its loop: the directory must exist
ManagerRestoreBegin ==
    /\ front = "manager" /\ rpc = "start"
    /\ IF isdir(bdir)
       THEN rpc' = ManagerOrder[1] /\ trace' = trace
       ELSE /\ rpc' = "nodir"
            /\ trace' = trace \o LogEv("error", "Backup directory does not exist")
    /\ UNCHANGED <<cfg, front, tools, bdir, restored, sensVars, defaultsVars, confVars, dotVars, exportVars>>

\* BackupManager.restore: one turn of `for component in self.components`
ManagerRestoreComponent ==
    /\ front = "manager" /\ rpc \in { ManagerOrder[i] : i \in 1..Len(ManagerOrder) }
    /\ \E a1 \in FirstLines, a2 \in SecondLines(rpc), ok \in InstallOutcomes(rpc) :
         LET r == ComponentRestore(rpc, a1, a2, ok)
         IN /\ trace' = trace \o r.ev
            /\ tools' = r.tools
            /\ restored' = IF r.acted THEN restored \cup {rpc} ELSE restored
    /\ rpc' = After(rpc)
    /\ UNCHANGED <<cfg, front, bdir, sensVars, defaultsVars, confVars, dotVars, exportVars>>

\* do_restore up to its first section: the directory check, verify_backup and
\* the continue / abort prompt
DoRestoreBegin ==
    /\ front = "action" /\ rpc = "start"
    /\ IF ~isdir(bdir)
       THEN /\ rpc' = "nodir"
            /\ trace' = trace \o LogEv("error", "Backup directory does not exist")
       ELSE IF verify_backup(bdir)
            THEN rpc' = ActionOrder[1] /\ trace' = trace
            ELSE \E a \in FirstLines :
                   LET q == AskLog("Backup verification failed, continue with restore?", a)
                   IN /\ trace' = trace \o LogEv("warning", "Backup verification failed") \o q.ev
                      /\ rpc' = IF q.yes THEN ActionOrder[1] ELSE "cancelled"
    /\ UNCHANGED <<cfg, front, tools, bdir, restored, sensVars, defaultsVars, confVars, dotVars, exportVars>>

\* do_restore: one section
DoRestoreSection ==
    /\ front = "action" /\ rpc \in { ActionOrder[i] : i \in 1..Len(ActionOrder) }
    /\ \E a1 \in FirstLines, a2 \in SecondLines(rpc), ok \in InstallOutcomes(rpc) :
         LET r == SectionRestore(rpc, a1, a2, ok)
         IN /\ trace' = trace \o r.ev
            /\ tools' = r.tools
            /\ restored' = IF r.acted THEN restored \cup {rpc} ELSE restored
    /\ rpc' = After(rpc)
    /\ UNCHANGED <<cfg, front, bdir, sensVars, defaultsVars, confVars, dotVars, exportVars>>

\* verify_backup on its own: the directories it is handed.  ENVIRONMENT.txt
\* of 10 or 120 bytes, missing, or a dangling link; a Brewfile of a few
\* hundred bytes or several KB; a further entry below a subdirectory
EnvSizes == { 10, 120, 1024, NoSize }

BrewfileSizes == { 900, 1014, 4096 }

AgentSizes == { 0, 4, NoSize }

\* the entry of a directory under a name, for one size or for none
Entry(name, sizes) == [p \in { name : s \in sizes } |-> CHOOSE s \in sizes : TRUE]

\* the directory with the given entries
DirWith(env, brew, agent) ==
    [isdir |-> TRUE,
     files |-> Entry("ENVIRONMENT.txt", env) @@ Entry("Brewfile", brew)
               @@ Entry("LaunchAgents/job.plist", agent)]

OneOrNone(S) == { {} } \cup { {s} : s \in S }

VerifyDirs ==
    { NoBackupDir } \cup
    { DirWith(e, b, a) : e \in OneOrNone(EnvSizes), b \in OneOrNone(BrewfileSizes),
                         a \in OneOrNone(AgentSizes) }

VerifyStart ==
    /\ front = "action"
    /\ rpc = "verify"
    /\ tools = {}
    /\ bdir \in VerifyDirs
    /\ trace = <<>>
    /\ restored = {}

\* verify_backup(backup_dir, log)
VerifyCall ==
    /\ rpc = "verify"
    /\ rpc' = IF verify_backup(bdir) THEN "verified" ELSE "rejected"
    /\ UNCHANGED <<cfg, front, tools, bdir, trace, restored, sensVars, defaultsVars, confVars, dotVars, exportVars>>

(***************************************************************************)
(* Dotfiles: the home directory, the archive dotfiles.tar.gz, and the      *)
(* export / restore of both front ends.  A tree (the home directory, the   *)
(* staging directory, the archive) is a function from the paths of its     *)
(* regular files to their contents; a directory exists when a file lies    *)
(* under it.                                                               *)
(***************************************************************************)
HomeDir == "/Users/u"

DOT_LIST ==
    << "~/.zshrc", "~/.zprofile", "~/.bashrc", "~/.bash_profile", "~/.profile",
       "~/.gitconfig", "~/.gitignore_global", "~/.vimrc", "~/.ideavimrc",
       "~/.wezterm.lua", "~/.tmux.conf", "~/.config/tmux",
       "~/.config/wezterm", "~/.config/kitty", "~/.config/nvim", "~/.config/alacritty",
       "~/.config/karabiner", "~/.config/starship.toml", "~/.config/iterm2",
       "~/.ssh/config",
       "~/Library/Preferences/com.googlecode.iterm2.plist",
       "~/Library/Preferences/IdeaVim",
       "~/Library/Application Support/JetBrains",
       "~/Library/Preferences/IntelliJIdea*",
       "~/Library/Developer/Xcode/UserData",
       "~/Library/Services",
       "~/Library/Fonts",
       "~/Library/Application Support/Code/User/settings.json",
       "~/Library/Application Support/Code/User/keybindings.json",
       "~/Library/Application Support/Code/User/snippets" >>

\* os.path.expanduser
expanduser(path) ==
    IF path = "~" \/ StartsWith(path, "~/")
    THEN HomeDir \o SubSeq(path, 2, Len(path))
    ELSE path

\* os.path.relpath(path, start) for a path below start
relpath(path, start) == SubSeq(path, Len(start) + 2, Len(path))

\* the index of the last "/" of a path, 0 when it has none
RECURSIVE LastSlash(_, _)
LastSlash(path, i) ==
    IF i = 0 THEN 0
    ELSE IF CharAt(path, i) = "/" THEN i ELSE LastSlash(path, i - 1)

basename(path) == SubSeq(path, LastSlash(path, Len(path)) + 1, Len(path))

\* the components of a relative path
RECURSIVE Components(_)
Components(path) ==
    IF ~Contains(path, "/") THEN {path}
    ELSE LET i == LastSlash(path, Len(path))
         IN {SubSeq(path, i + 1, Len(path))} \cup Components(SubSeq(path, 1, i - 1))

\* os.path.exists on a tree
IsFile(tree, path) == path \in DOMAIN tree

FilesUnder(tree, dir) == { p \in DOMAIN tree : StartsWith(p, dir \o "/") }

IsDir(tree, path) == FilesUnder(tree, path) # {}

exists(tree, path) == IsFile(tree, path) \/ IsDir(tree, path)

EmptyTree == [p \in {} |-> ""]

\* the tree whose files are the first components of the pairs; a path that
\* occurs once
TreeOf(pairs) ==
    [p \in { x[1] : x \in pairs } |-> (CHOOSE x \in pairs : x[1] = p)[2]]

\* rsync --exclude "*.key" --exclude "known_hosts" --exclude "authorized_keys":
\* a name the transfer leaves out, with everything below it
Excluded(name) ==
    EndsWith(name, ".key") \/ name = "known_hosts" \/ name = "authorized_keys"

\* rsync -a --exclude ... "src" "dest", without trailing slashes, into a
\* staging tree: the files the transfer creates.  dest "" is the root of the
\* staging tree.  A file source lands in dest when dest is a directory and
\* as dest otherwise; a directory source lands as dest/<basename>/...
Transfer(tree, src, dest, destIsDir) ==
    LET place(q) == IF dest = "" THEN q ELSE dest \o "/" \o q
        inner(p) == basename(src) \o SubSeq(p, Len(src) + 1, Len(p))
        kept == { p \in FilesUnder(tree, src) :
                    \A n \in Components(inner(p)) : ~Excluded(n) }
    IN IF IsFile(tree, src)
       THEN IF Excluded(basename(src)) THEN EmptyTree
            ELSE [p \in {IF destIsDir THEN place(basename(src)) ELSE dest} |-> tree[src]]
       ELSE TreeOf({ <<place(inner(p)), tree[p]>> : p \in kept })

\* DotfilesComponent._get_secure_dotfile_list: the catalog entries that
\* exist and that the predicate of core.py lets through, as indices
_get_secure_dotfile_list(tree) ==
    { i \in 1..Len(DOT_LIST) :
        /\ exists(tree, expanduser(DOT_LIST[i]))
        /\ ~_is_sensitive_file(expanduser(DOT_LIST[i])) }

\* utils.get_secure_dotfile_list: the same with the predicate of utils.py
get_secure_dotfile_list(tree) ==
    { i \in 1..Len(DOT_LIST) :
        /\ exists(tree, expanduser(DOT_LIST[i]))
        /\ ~is_sensitive_file(expanduser(DOT_LIST[i])) }

\* DotfilesComponent.export, the staging loop: every safe entry is copied
\* to <tmp>/<path relative to the home directory>, in catalog order
RECURSIVE StageManager(_, _, _)
StageManager(tree, safe, i) ==
    IF i = 0 THEN EmptyTree
    ELSE IF i \in safe
    THEN Transfer(tree, expanduser(DOT_LIST[i]),
                  relpath(expanduser(DOT_LIST[i]), expanduser("~")), FALSE)
             @@ StageManager(tree, safe, i - 1)
    ELSE StageManager(tree, safe, i - 1)

\* do_export, the staging loop: every safe entry is copied into the one
\* directory <outdir>/dotfiles, in catalog order
RECURSIVE StageAction(_, _, _)
StageAction(tree, safe, i) ==
    IF i = 0 THEN EmptyTree
    ELSE IF i \in safe
    THEN Transfer(tree, expanduser(DOT_LIST[i]), "", TRUE)
             @@ StageAction(tree, safe, i - 1)
    ELSE StageAction(tree, safe, i - 1)

NoDotball == [exists |-> FALSE, files |-> EmptyTree]

\* DotfilesComponent.export: what it returns, whether it wrote the archive,
\* and the archive the backup directory holds after the call
DotfilesExport(tree, old) ==
    LET safe_dotfiles == _get_secure_dotfile_list(tree)
    IN IF safe_dotfiles = {}
       THEN [ret |-> FALSE, wrote |-> FALSE, ball |-> old]
       ELSE IF cfg.dry_run
       THEN [ret |-> TRUE, wrote |-> FALSE, ball |-> old]
       ELSE [ret |-> TRUE, wrote |-> TRUE,
             ball |-> [exists |-> TRUE,
                       files |-> StageManager(tree, safe_dotfiles, Len(DOT_LIST))]]

\* do_export, the dotfiles section
DoExportDotfiles(tree, old) ==
    LET safe_dotfiles == get_secure_dotfile_list(tree)
    IN IF cfg.dry_run
       THEN [ret |-> TRUE, wrote |-> FALSE, ball |-> old]
       ELSE [ret |-> TRUE, wrote |-> TRUE,
             ball |-> [exists |-> TRUE,
                       files |-> StageAction(tree, safe_dotfiles, Len(DOT_LIST))]]

\* date +%Y%m%d%H%M%S at second t of the modelled minute
Digits == "0123456789"

Stamp(t) == "20260101" \o "0900" \o CharAt(Digits, (t \div 10) + 1) \o CharAt(Digits, (t % 10) + 1)

\* cp -a "$dst" "${dst}.bak.<stamp>": the copies made of one destination
Aside(tree, dst, t) ==
    LET bak == dst \o ".bak." \o Stamp(t)
    IN IF IsFile(tree, dst) THEN [p \in {bak} |-> tree[dst]]
       ELSE TreeOf({ <<bak \o SubSeq(p, Len(dst) + 1, Len(p)), tree[p]>> :
                        p \in FilesUnder(tree, dst) })

\* the find | while loop of both restores: every file of the extracted tree
\* whose destination exists is copied aside.  No destination is itself a
\* copy made by the same loop, so each copy reads the tree the loop found.
RECURSIVE AsideAll(_, _, _)
AsideAll(tree, items, t) ==
    IF items = {} THEN EmptyTree
    ELSE LET item == CHOOSE x \in items : TRUE
             dst == HomeDir \o "/" \o item
         IN (IF exists(tree, dst) THEN Aside(tree, dst, t) ELSE EmptyTree)
                @@ AsideAll(tree, items \ {item}, t)

\* rsync -av "<tmp>/" "<home>/": the extracted tree laid over the home tree
Overlay(tree, arch) ==
    [p \in { HomeDir \o "/" \o item : item \in DOMAIN arch } |->
        arch[SubSeq(p, Len(HomeDir) + 2, Len(p))]] @@ tree

\* DotfilesComponent.restore, the script: the loop, then rsync on a line of
\* its own
ManagerRestoreScript(tree, arch, t) ==
    Overlay(AsideAll(tree, DOMAIN arch, t) @@ tree, arch)

\* do_restore, the one-line command: `done && rsync ...` runs rsync only
\* when the loop's last command succeeded, which is the test [[ -e "$dst" ]]
\* of the item find printed last (or nothing, for an empty archive)
ActionRsyncRuns(tree, arch, lastItem) ==
    DOMAIN arch = {} \/ exists(tree, HomeDir \o "/" \o lastItem)

ActionRestoreScript(tree, arch, t, lastItem) ==
    LET aside == AsideAll(tree, DOMAIN arch, t) @@ tree
    IN IF ActionRsyncRuns(tree, arch, lastItem) THEN Overlay(aside, arch) ELSE aside

\* the items find may print last
LastItems(arch) == IF DOMAIN arch = {} THEN {""} ELSE DOMAIN arch

\* the home directories a run starts from: files of the catalog, a file
\* with a sensitive name inside a catalog directory, a private key outside
\* the catalog
CatalogFiles ==
    { HomeDir \o "/.zshrc", HomeDir \o "/.ssh/config",
      HomeDir \o "/.config/nvim/init.lua", HomeDir \o "/.config/nvim/id_rsa" }

PrivateKey == HomeDir \o "/.ssh/id_rsa"

HomeChoices ==
    { [p \in S \cup {PrivateKey} |-> "A"] : S \in SUBSET CatalogFiles }

MaxExports == 1

MaxEdits == 1

MaxRestores == 2

MaxClock == 1

NoSnap == [taken |-> FALSE, via |-> "none", home |-> EmptyTree]

NoOp == [op |-> "none", via |-> "none", yes |-> FALSE, synced |-> FALSE,
         pre |-> EmptyTree, t |-> 0]

DotStart ==
    /\ home \in HomeChoices
    /\ dotball = NoDotball
    /\ now = 0
    /\ shadowed = {}
    /\ snap = NoSnap
    /\ last = NoOp
    /\ used = [exports |-> 0, edits |-> 0, restores |-> 0]

DotIdle ==
    /\ home = EmptyTree
    /\ dotball = NoDotball
    /\ now = 0
    /\ shadowed = {}
    /\ snap = NoSnap
    /\ last = NoOp
    /\ used = [exports |-> 0, edits |-> 0, restores |-> 0]

\* what an export leaves in the model's history: snap is the home
\* directory the archive was made from
Exported(via, r) ==
    /\ dotball' = r.ball
    /\ snap' = IF r.wrote THEN [taken |-> TRUE, via |-> via, home |-> home] ELSE snap
    /\ last' = [NoOp EXCEPT !.op = "export", !.via = via, !.yes = r.ret,
                            !.pre = home, !.t = now]
    /\ used' = [used EXCEPT !.exports = @ + 1]
    /\ UNCHANGED <<home, now, shadowed>>

\* DotfilesComponent.export on the home directory
DotExportManager ==
    /\ used.exports < MaxExports
    /\ LET r == DotfilesExport(home, dotball) IN Exported("manager", r)
    /\ UNCHANGED <<cfg, sensVars, defaultsVars, confVars, restoreVars, exportVars>>

\* do_export, the dotfiles section, on the home directory
DotExportAction ==
    /\ used.exports < MaxExports
    /\ LET r == DoExportDotfiles(home, dotball) IN Exported("action", r)
    /\ UNCHANGED <<cfg, sensVars, defaultsVars, confVars, restoreVars, exportVars>>

\* what a restore that asked its question leaves in the model's history:
\* the contents rsync replaced join shadowed
Restored(via, yes, synced, tree) ==
    /\ home' = tree
    /\ shadowed' =
          IF yes /\ synced /\ ~cfg.dry_run
          THEN shadowed \cup
                 { <<HomeDir \o "/" \o item, home[HomeDir \o "/" \o item]>> :
                     item \in { i \in DOMAIN dotball.files :
                                  IsFile(home, HomeDir \o "/" \o i) } }
          ELSE shadowed
    /\ last' = [op |-> "restore", via |-> via, yes |-> yes, synced |-> synced,
                pre |-> home, t |-> now]
    /\ used' = [used EXCEPT !.restores = @ + 1]
    /\ UNCHANGED <<dotball, now, snap>>

\* DotfilesComponent.restore
DotRestoreManager ==
    /\ used.restores < MaxRestores
    /\ dotball.exists
    /\ \E line \in TypedLines :
         LET yes == confirm_action(cfg.interactive, <<line>>).yes
         IN Restored("manager", yes, yes /\ ~cfg.dry_run,
                     IF yes /\ ~cfg.dry_run
                     THEN ManagerRestoreScript(home, dotball.files, now)
                     ELSE home)
    /\ UNCHANGED <<cfg, sensVars, defaultsVars, confVars, restoreVars, exportVars>>

\* do_restore, the dotfiles section
DotRestoreAction ==
    /\ used.restores < MaxRestores
    /\ dotball.exists
    /\ \E line \in TypedLines, lastItem \in LastItems(dotball.files) :
         LET yes == confirm(cfg.interactive, <<line>>).yes
             ran == yes /\ ~cfg.dry_run
         IN Restored("action", yes,
                     ran /\ ActionRsyncRuns(home, dotball.files, lastItem),
                     IF ran
                     THEN ActionRestoreScript(home, dotball.files, now, lastItem)
                     ELSE home)
    /\ UNCHANGED <<cfg, sensVars, defaultsVars, confVars, restoreVars, exportVars>>

\* the user edits a file of the home directory
EditFile ==
    /\ used.edits < MaxEdits
    /\ \E p \in (CatalogFiles \cap DOMAIN home) :
         /\ home[p] = "A"
         /\ home' = [home EXCEPT ![p] = "B"]
    /\ last' = [NoOp EXCEPT !.op = "edit", !.pre = home, !.t = now]
    /\ used' = [used EXCEPT !.edits = @ + 1]
    /\ UNCHANGED <<dotball, now, shadowed, snap>>
    /\ UNCHANGED <<cfg, sensVars, defaultsVars, confVars, restoreVars, exportVars>>

\* the backup is carried to a machine whose home directory is new
FreshHome ==
    /\ used.edits < MaxEdits
    /\ dotball.exists
    /\ home # EmptyTree
    /\ home' = EmptyTree
    /\ shadowed' = {}
    /\ last' = [NoOp EXCEPT !.op = "fresh", !.pre = home, !.t = now]
    /\ used' = [used EXCEPT !.edits = @ + 1]
    /\ UNCHANGED <<dotball, now, snap>>
    /\ UNCHANGED <<cfg, sensVars, defaultsVars, confVars, restoreVars, exportVars>>

\* the clock reaches the next second
Tick ==
    /\ now < MaxClock
    /\ now' = now + 1
    /\ UNCHANGED <<home, dotball, shadowed, snap, last, used>>
    /\ UNCHANGED <<cfg, sensVars, defaultsVars, confVars, restoreVars, exportVars>>

(***************************************************************************)
(* Export: the orchestration of BackupManager.export (core.py and          *)
(* core/backup.py) and of do_export, and the manifest.  The output         *)
(* directory is a record: whether it exists, its files (path relative to   *)
(* the directory -> size) and its subdirectories.  A command of a tool     *)
(* that is installed succeeds.                                             *)
(***************************************************************************)
NoOutdir == [isdir |-> FALSE, files |-> [p \in {} |-> 0], dirs |-> {}]

\* os.makedirs(path, exist_ok=True) of the output directory or one below it
makedirs(d, sub) ==
    [d EXCEPT !.isdir = TRUE, !.dirs = IF sub = "" THEN @ ELSE @ \cup {sub}]

\* the files a command or an open(..., "w") leaves in the directory
WriteFiles(d, paths) ==
    [d EXCEPT !.files = [p \in paths |-> ArtifactSize(p)] @@ @]

\* executor.run / utils.run of a command that writes paths: nothing under
\* dry_run
RunWrites(d, paths) == IF cfg.dry_run THEN d ELSE WriteFiles(d, paths)

ManifestName == "MANIFEST.txt"

\* os.path.dirname of a relative path, "" for a file of the top directory
dirname(path) ==
    IF LastSlash(path, Len(path)) = 0 THEN ""
    ELSE SubSeq(path, 1, LastSlash(path, Len(path)) - 1)

\* utils.create_backup_manifest(backup_dir, log): open() creates the
\* manifest, os.walk visits every directory, and each file whose name is
\* not "MANIFEST.txt" gets an entry under its directory.  log.ok / log.warn
\* raise AttributeError when log is not a Logger; the one in the except
\* clause escapes.
create_backup_manifest(d, logIsLogger) ==
    LET made == WriteFiles(d, {ManifestName})
    IN [dir |-> made,
        entries |-> { [root |-> dirname(p), file |-> basename(p), size |-> made.files[p]] :
                        p \in { q \in DOMAIN made.files : basename(q) # ManifestName } },
        raises |-> ~logIsLogger]

\* the relative path an entry of the manifest stands for
EntryPath(e) == IF e.root = "" THEN e.file ELSE e.root \o "/" \o e.file

\* BackupComponent.is_enabled of the six components
is_enabled(c) ==
    CASE c = "Homebrew"     -> TRUE
      [] c = "MAS"          -> cfg.enable_mas
      [] c = "VSCode"       -> cfg.enable_vscode
      [] c = "Dotfiles"     -> TRUE
      [] c = "Defaults"     -> cfg.enable_defaults
      [] c = "LaunchAgents" -> cfg.enable_launchagents

\* executor.which / shutil.which
which(cmd) == cmd \in installed

\* BackupComponent.is_available of the six components
is_available(c) ==
    CASE c = "Homebrew"     -> which("brew")
      [] c = "MAS"          -> which("mas")
      [] c = "VSCode"       -> which("code")
      [] c = "Dotfiles"     -> TRUE
      [] c = "Defaults"     -> which("defaults")
      [] c = "LaunchAgents" -> TRUE

\* the domains of config/defaults/domains.txt and the ones `defaults domains`
\* prints
Domains == { "com.apple.dock", "com.example.gone" }

Registered == IF machine.dock THEN { "com.apple.dock" } ELSE {}

Plist(domain) == "defaults/" \o domain \o ".plist"

AgentPlists == { "LaunchAgents/com.user.job.plist" }

NoStatus == -1

NoFault == [at |-> "", kind |-> "none"]

\* the user presses Ctrl-C while step c waits
Interrupted(c) == fault = [at |-> c, kind |-> "interrupt"]

\* the tool that the command of step c starts exits with status 1
Fails(c) == fault = [at |-> c, kind |-> "nonzero"]

\* CommandExecutor.run / utils.run of the command of step c, dry_run left
\* out of account
run_IgnoresDryRun(c, check) ==
    IF Interrupted(c)
    THEN [rc |-> 130, exit |-> 130, spawns |-> TRUE, warned |-> TRUE]
    ELSE IF Fails(c)
    THEN [rc |-> 1, exit |-> IF check THEN 1 ELSE NoStatus, spawns |-> TRUE,
          warned |-> FALSE]
    ELSE [rc |-> 0, exit |-> NoStatus, spawns |-> TRUE, warned |-> FALSE]

\* CommandExecutor.run / utils.run of the command of step c: under dry_run
\* the command is logged and 0 returned; otherwise subprocess.call starts
\* it, a non-zero status raises SystemExit(rc) when check is set, and
\* KeyboardInterrupt is logged as a warning and raises SystemExit(130)
run(c, check) ==
    IF cfg.dry_run
    THEN [rc |-> 0, exit |-> NoStatus, spawns |-> FALSE, warned |-> FALSE]
    ELSE run_IgnoresDryRun(c, check)

\* CommandExecutor.run_output / utils.run_out of the command of step c:
\* the command is started whatever dry_run is, and KeyboardInterrupt is
\* not among the exceptions caught
run_output(c) == [spawns |-> TRUE, raises |-> Interrupted(c)]

\* a file that is created before its data is written, by the shell for
\* `> file` or by tar for `-czf file`, when the command then fails or is
\* interrupted
Truncate(d, paths) == [d EXCEPT !.files = [p \in paths |-> 0] @@ @]

\* an export whose data comes from one run: cmd writes paths; redirect: the
\* files are created under their final names before the data is there
RunExport(c, d, cmd, paths, check, redirect) ==
    LET r == run(c, check)
    IN [ret |-> TRUE,
        dir |-> IF r.rc = 0 THEN RunWrites(d, paths)
                ELSE IF redirect THEN Truncate(d, paths) ELSE d,
        cmds |-> IF r.spawns THEN {cmd} ELSE {},
        exit |-> r.exit, raises |-> FALSE, warned |-> r.warned]

\* an export that returns before it runs anything
Skipped(d) ==
    [ret |-> FALSE, dir |-> d, cmds |-> {}, exit |-> NoStatus, raises |-> FALSE,
     warned |-> FALSE]

\* DefaultsComponent.export and the defaults section of do_export, from the
\* creation of the defaults directory on: `defaults domains` is read with
\* run_output for each listed domain, `defaults export` is run with
\* check=False for each domain of ran, and leaves a file for each domain of
\* exports.  The value returned is exported_count > 0
DomainsExport(d, ran, exports) ==
    LET made == makedirs(d, "defaults")
        q == run_output("domains")
        r == run("Defaults", FALSE)
    IN IF q.raises
       THEN [ret |-> FALSE, dir |-> made, cmds |-> {"defaults domains"},
             exit |-> NoStatus, raises |-> TRUE, warned |-> FALSE]
       ELSE IF ran = {}
       THEN [ret |-> FALSE, dir |-> made, cmds |-> {"defaults domains"},
             exit |-> NoStatus, raises |-> FALSE, warned |-> FALSE]
       ELSE [ret |-> TRUE,
             dir |-> IF r.rc = 0 THEN RunWrites(made, { Plist(x) : x \in exports })
                     ELSE made,
             cmds |-> {"defaults domains"}
                        \cup IF r.spawns THEN { "defaults export " \o x : x \in ran }
                             ELSE {},
             exit |-> r.exit, raises |-> FALSE, warned |-> r.warned]

\* the export method of each component of core.py: what it returns, the
\* directory it leaves, the commands it starts and the way it ends
ComponentExport(c, d) ==
    CASE c = "Homebrew" ->
           IF ~is_available(c) THEN Skipped(d)
           ELSE RunExport(c, d, "brew bundle dump", {"Brewfile", "HOMEBREW_VERSION.txt"},
                          TRUE, FALSE)
      [] c = "MAS" ->
           IF ~is_enabled(c) \/ ~is_available(c) THEN Skipped(d)
           ELSE RunExport(c, d, "mas list", {"mas.list"}, TRUE, TRUE)
      [] c = "VSCode" ->
           IF ~is_enabled(c) \/ ~is_available(c) THEN Skipped(d)
           ELSE RunExport(c, d, "code --list-extensions", {"vscode_extensions.txt"},
                          TRUE, TRUE)
      [] c = "Dotfiles" ->
           IF ~machine.dots THEN Skipped(d)
           ELSE RunExport(c, d, "tar", {"dotfiles.tar.gz"}, FALSE, TRUE)
      [] c = "Defaults" ->
           IF ~is_enabled(c) \/ ~is_available(c) THEN Skipped(d)
           ELSE IF ~machine.domains_file THEN Skipped(d)
           ELSE DomainsExport(d, Domains \cap Registered, Domains \cap Registered)
      [] c = "LaunchAgents" ->
           IF ~is_enabled(c) THEN Skipped(d)
           ELSE IF ~machine.la_dir THEN Skipped(d)
           ELSE RunExport(c, makedirs(d, "LaunchAgents"), "cp", AgentPlists, FALSE, FALSE)

\* the sections of do_export: whether the section's body ran, the directory
\* it leaves, the commands it starts and the way it ends.  Every run has
\* check=False.  stray: whether `defaults export` of a domain that is not
\* registered leaves a file (the command is run for every listed domain, the
\* status read being that of `echo`)
SectionExport(c, d, stray) ==
    CASE c = "Homebrew" ->
           IF which("brew")
           THEN RunExport(c, d, "brew bundle dump", {"Brewfile", "HOMEBREW_VERSION.txt"},
                          FALSE, FALSE)
           ELSE Skipped(d)
      [] c = "MAS" ->
           IF cfg.enable_mas /\ which("mas")
           THEN RunExport(c, d, "mas list", {"mas.list"}, FALSE, TRUE)
           ELSE Skipped(d)
      [] c = "VSCode" ->
           IF cfg.enable_vscode /\ which("code")
           THEN RunExport(c, d, "code --list-extensions", {"vscode_extensions.txt"},
                          FALSE, TRUE)
           ELSE Skipped(d)
      [] c = "Dotfiles" ->
           LET r == run(c, FALSE)
           IN [ret |-> TRUE,
               dir |-> IF r.spawns /\ r.rc = 0 THEN WriteFiles(d, {"dotfiles.tar.gz"})
                       ELSE IF r.spawns
                       THEN Truncate(makedirs(d, "dotfiles"), {"dotfiles.tar.gz"})
                       ELSE makedirs(d, "dotfiles"),
               cmds |-> IF r.spawns THEN {"tar"} ELSE {},
               exit |-> r.exit, raises |-> FALSE, warned |-> r.warned]
      [] c = "Defaults" ->
           IF cfg.enable_defaults /\ machine.domains_file
           THEN DomainsExport(d, Domains,
                              { y \in Domains :
                                  which("defaults") /\ (y \in Registered \/ stray) })
           ELSE Skipped(d)
      [] c = "LaunchAgents" ->
           IF cfg.enable_launchagents /\ machine.la_dir
           THEN RunExport(c, makedirs(d, "LaunchAgents"), "cp", AgentPlists, FALSE, FALSE)
           ELSE Skipped(d)

\* the step after component c of an export
AfterExport(c) ==
    LET i == PositionOf(ManagerOrder, c)
    IN IF i = Len(ManagerOrder) THEN "manifest" ELSE ManagerOrder[i + 1]

Event(k, c) == [k |-> k, c |-> c]

\* whether the call of a component's export comes back to the loop
Returns(r) == r.exit = NoStatus /\ ~r.raises

\* a loop that counts a reported success twice
CountSuccess_Twice(n, ret) == IF ret THEN n + 2 ELSE n

\* BackupManager.export: if component.export(output_dir): success_count += 1
CountSuccess(n, ret) == IF ret THEN n + 1 ELSE n

NoManifest == [written |-> FALSE, entries |-> {}]

NoArchive == [exists |-> FALSE, damaged |-> FALSE, members |-> {}]

NoPrior == [done |-> FALSE, flag |-> "", outdir |-> NoOutdir]

\* an output directory that exists before the export: a note, and a
\* subdirectory that holds a file named like the manifest
ExistingOutdir ==
    [isdir |-> TRUE,
     files |-> [p \in {"notes.txt", "old/MANIFEST.txt"} |-> ArtifactSize(p)],
     dirs |-> {"old"}]

Implementations == { "core", "package", "action" }

Tools == { "brew", "mas", "code", "defaults" }

ExportConfigs ==
    { [DefaultConfig EXCEPT !.dry_run = d, !.enable_mas = m, !.enable_vscode = v,
                            !.enable_defaults = f, !.enable_launchagents = l] :
        d \in BOOLEAN, m \in BOOLEAN, v \in BOOLEAN, f \in BOOLEAN, l \in BOOLEAN }

Machines ==
    [dots : BOOLEAN, domains_file : BOOLEAN, la_dir : BOOLEAN, dock : BOOLEAN,
     stray : BOOLEAN]

\* the tool a component or a section looks for on PATH
ToolOf(c) ==
    CASE c = "Homebrew" -> "brew"
      [] c = "MAS"      -> "mas"
      [] c = "VSCode"   -> "code"
      [] c = "Defaults" -> "defaults"

\* the command executor.which / utils.which starts
Probe(c) == "command -v " \o ToolOf(c)

\* the presence checks BackupManager.export makes for component c:
\* is_enabled() and is_available()
ManagerProbes(c) ==
    IF c \in {"Homebrew", "MAS", "VSCode", "Defaults"} /\ is_enabled(c)
    THEN {Probe(c)} ELSE {}

\* the presence checks of the sections of do_export
SectionProbes(c) ==
    IF \/ c = "Homebrew"
       \/ c = "MAS" /\ cfg.enable_mas
       \/ c = "VSCode" /\ cfg.enable_vscode
    THEN {Probe(c)} ELSE {}

\* the commands utils.host and the two run_output / run_out calls of the
\* environment file start
EnvCommands == { "scutil", "sw_vers", "xcode-select" }

ExportMachine ==
    /\ impl \in Implementations
    /\ epc = "start"
    /\ installed \in SUBSET Tools
    /\ machine \in Machines
    /\ outdir \in { NoOutdir, ExistingOutdir }
    /\ outdir0 = outdir
    /\ events = <<>>
    /\ manifest = NoManifest
    /\ spawned = {}
    /\ status = NoStatus
    /\ archive = NoArchive
    /\ unpacked = "idle"
    /\ prior = NoPrior
    /\ temp_dir = NoOutdir
    /\ success_count = 0
    /\ total_count = 0

\* an export in which every command that is started succeeds
ExportStart == ExportMachine /\ fault = NoFault

ExportIdle ==
    /\ impl = "core"
    /\ epc = "idle"
    /\ installed = {}
    /\ machine = [dots |-> FALSE, domains_file |-> FALSE, la_dir |-> FALSE, dock |-> FALSE,
                  stray |-> FALSE]
    /\ outdir = NoOutdir
    /\ outdir0 = NoOutdir
    /\ events = <<>>
    /\ manifest = NoManifest
    /\ fault = NoFault
    /\ spawned = {}
    /\ status = NoStatus
    /\ archive = NoArchive
    /\ unpacked = "idle"
    /\ prior = NoPrior
    /\ temp_dir = NoOutdir
    /\ success_count = 0
    /\ total_count = 0

\* export, up to the environment file: do_export asks before writing into
\* a directory that exists, and counts its steps with which(); all three
\* create the directory and write ENVIRONMENT.txt with open(), reading the
\* host and the system version with run_out / run_output, dry_run or not.
\* Ctrl-C at input() or inside run_out / run_output is caught nowhere
ExportBegin ==
    /\ epc = "start"
    /\ \E line \in FirstLines :
         LET asks == impl = "action" /\ outdir.isdir
             made == makedirs(outdir, "")
             probes == IF impl = "action"
                       THEN UNION { SectionProbes(c) : c \in {"Homebrew", "MAS", "VSCode"} }
                       ELSE {}
         IN IF asks /\ cfg.interactive /\ Interrupted("confirm")
            THEN /\ epc' = "interrupted"
                 /\ UNCHANGED <<outdir, events, spawned, success_count>>
            ELSE IF asks /\ ~confirm(cfg.interactive, <<line>>).yes
            THEN /\ epc' = "cancelled"
                 /\ UNCHANGED <<outdir, events, spawned, success_count>>
            ELSE IF run_output("env").raises
            THEN /\ outdir' = Truncate(made, {"ENVIRONMENT.txt"})
                 /\ spawned' = probes \cup {"scutil"}
                 /\ epc' = "interrupted"
                 /\ UNCHANGED <<events, success_count>>
            ELSE /\ outdir' = WriteFiles(made, {"ENVIRONMENT.txt"})
                 /\ spawned' = probes \cup EnvCommands
                 /\ events' = <<Event("env", "")>>
                 /\ success_count' = IF impl = "action" THEN success_count
                                     ELSE success_count + 1
                 /\ epc' = ManagerOrder[1]
    /\ UNCHANGED <<total_count, temp_dir, impl, installed, machine, outdir0, manifest, fault, status, archive, unpacked, prior>>
    /\ UNCHANGED <<cfg, sensVars, defaultsVars, confVars, restoreVars, dotVars>>

\* export, one component: BackupManager.export calls a component's export
\* when it is enabled and available; do_export runs its section.  A
\* SystemExit or a KeyboardInterrupt that leaves the component ends the run
ExportComponent ==
    /\ epc \in { ManagerOrder[i] : i \in 1..Len(ManagerOrder) }
    /\ LET calls == is_enabled(epc) /\ is_available(epc)
           r == IF impl = "action" THEN SectionExport(epc, outdir, machine.stray)
                ELSE IF calls THEN ComponentExport(epc, outdir)
                ELSE Skipped(outdir)
           ran == IF impl = "action" THEN r # Skipped(outdir) ELSE calls
       IN /\ outdir' = r.dir
          /\ spawned' = spawned \cup r.cmds
                           \cup IF impl = "action" THEN SectionProbes(epc)
                                ELSE ManagerProbes(epc)
          /\ status' = r.exit
          /\ events' = events
                         \o (IF ran THEN <<Event("export", epc)>> ELSE <<>>)
                         \o (IF r.warned
                             THEN <<Event("warning", "Operation interrupted by user")>>
                             ELSE <<>>)
          /\ epc' = IF r.exit # NoStatus THEN "exited"
                    ELSE IF r.raises THEN "interrupted"
                    ELSE AfterExport(epc)
          /\ total_count' = IF impl # "action" /\ calls THEN total_count + 1
                            ELSE total_count
          /\ success_count' = IF impl # "action" /\ calls /\ Returns(r)
                              THEN CountSuccess(success_count, r.ret)
                              ELSE success_count
    /\ UNCHANGED <<temp_dir, impl, installed, machine, outdir0, manifest, fault, archive, unpacked, prior>>
    /\ UNCHANGED <<cfg, sensVars, defaultsVars, confVars, restoreVars, dotVars>>

\* export, after the last component: core.py returns; core/backup.py hands
\* the list of component names to create_backup_manifest as its log, then
\* writes README.md; do_export writes the manifest, verifies and returns
ExportFinish ==
    /\ epc = "manifest"
    /\ CASE impl = "core" ->
              /\ epc' = "returned"
              /\ UNCHANGED <<outdir, events, manifest>>
         [] impl = "package" ->
              LET r == create_backup_manifest(outdir, FALSE)
              IN /\ manifest' = [written |-> TRUE, entries |-> r.entries]
                 /\ IF r.raises
                    THEN /\ outdir' = r.dir
                         /\ events' = Append(events, Event("manifest", ""))
                         /\ epc' = "raised"
                    ELSE /\ outdir' = WriteFiles(r.dir, {"README.md"})
                         /\ events' = events \o <<Event("manifest", ""), Event("readme", "")>>
                         /\ epc' = "returned"
         [] impl = "action" ->
              LET r == create_backup_manifest(outdir, TRUE)
              IN /\ manifest' = [written |-> TRUE, entries |-> r.entries]
                 /\ outdir' = r.dir
                 /\ events' = Append(events, Event("manifest", ""))
                 /\ epc' = "returned"
    /\ UNCHANGED <<success_count, total_count, temp_dir, impl, installed, machine, outdir0, fault, spawned, status, archive, unpacked, prior>>
    /\ UNCHANGED <<cfg, sensVars, defaultsVars, confVars, restoreVars, dotVars>>

\* create_backup_manifest on its own: the directories it is handed
ManifestFiles ==
    { "a.txt", "README.md", "MANIFEST.txt", "sub/b.txt", "sub/MANIFEST.txt",
      "sub/deep/c.txt", "sub/deep/MANIFEST.txt" }

\* the directories that hold the files of a set of paths
RECURSIVE Ancestors(_)
Ancestors(path) ==
    IF dirname(path) = "" THEN {} ELSE {dirname(path)} \cup Ancestors(dirname(path))

ManifestDirs ==
    { [isdir |-> TRUE,
       files |-> [p \in S |-> ArtifactSize(p)],
       dirs |-> UNION { Ancestors(p) : p \in S }] : S \in SUBSET ManifestFiles }

ManifestStart ==
    /\ impl = "action"
    /\ epc = "call"
    /\ installed = {}
    /\ machine = [dots |-> FALSE, domains_file |-> FALSE, la_dir |-> FALSE, dock |-> FALSE,
                  stray |-> FALSE]
    /\ outdir \in ManifestDirs
    /\ outdir0 = outdir
    /\ events = <<>>
    /\ manifest = NoManifest
    /\ fault = NoFault
    /\ spawned = {}
    /\ status = NoStatus
    /\ archive = NoArchive
    /\ unpacked = "idle"
    /\ prior = NoPrior
    /\ temp_dir = NoOutdir
    /\ success_count = 0
    /\ total_count = 0

\* create_backup_manifest(backup_dir, log) called with a Logger
ManifestCall ==
    /\ epc = "call"
    /\ LET r == create_backup_manifest(outdir, TRUE)
       IN /\ manifest' = [written |-> TRUE, entries |-> r.entries]
          /\ outdir' = r.dir
    /\ events' = <<Event("manifest", "")>>
    /\ epc' = "called"
    /\ UNCHANGED <<success_count, total_count, temp_dir, impl, installed, machine, outdir0, fault, spawned, status, archive, unpacked, prior>>
    /\ UNCHANGED <<cfg, sensVars, defaultsVars, confVars, restoreVars, dotVars>>


(***************************************************************************)
(* Two exports on one machine, the second with one enable flag switched.   *)
(***************************************************************************)
Flags == { "enable_mas", "enable_vscode", "enable_defaults", "enable_launchagents" }

\* the configuration with one enable flag switched
Switch(c, f) ==
    CASE f = "enable_mas"          -> [c EXCEPT !.enable_mas = ~@]
      [] f = "enable_vscode"       -> [c EXCEPT !.enable_vscode = ~@]
      [] f = "enable_defaults"     -> [c EXCEPT !.enable_defaults = ~@]
      [] f = "enable_launchagents" -> [c EXCEPT !.enable_launchagents = ~@]

\* the component whose is_enabled reads the flag
ComponentOf(f) ==
    CASE f = "enable_mas"          -> "MAS"
      [] f = "enable_vscode"       -> "VSCode"
      [] f = "enable_defaults"     -> "Defaults"
      [] f = "enable_launchagents" -> "LaunchAgents"

Ended == epc \in { "returned", "raised", "exited", "interrupted", "cancelled" }

\* the program is started again on the same machine, for the same output
\* directory as the first run found it, with one flag switched
Rerun ==
    /\ Ended /\ ~prior.done
    /\ \E f \in Flags :
         /\ cfg' = Switch(cfg, f)
         /\ prior' = [done |-> TRUE, flag |-> f, outdir |-> outdir]
    /\ epc' = "start"
    /\ outdir' = outdir0
    /\ events' = <<>>
    /\ manifest' = NoManifest
    /\ spawned' = {}
    /\ status' = NoStatus
    /\ success_count' = 0
    /\ total_count' = 0
    /\ UNCHANGED <<temp_dir, impl, installed, machine, outdir0, fault, archive, unpacked>>
    /\ UNCHANGED <<sensVars, defaultsVars, confVars, restoreVars, dotVars>>

(***************************************************************************)
(* The export method of one component of core.py, called on its own,       *)
(* whether or not the component is enabled and available.                  *)
(***************************************************************************)
EmptyOutdir == [isdir |-> TRUE, files |-> [p \in {} |-> 0], dirs |-> {}]

ComponentConfigs ==
    { [DefaultConfig EXCEPT !.dry_run = d, !.enable_mas = e, !.enable_vscode = e,
                            !.enable_defaults = e, !.enable_launchagents = e] :
        d \in BOOLEAN, e \in BOOLEAN }

ComponentStart ==
    /\ impl = "core"
    /\ epc \in { ManagerOrder[i] : i \in 1..Len(ManagerOrder) }
    /\ installed \in SUBSET Tools
    /\ machine \in Machines
    /\ outdir \in { EmptyOutdir, ExistingOutdir }
    /\ outdir0 = outdir
    /\ events = <<>>
    /\ manifest = NoManifest
    /\ fault = NoFault
    /\ spawned = {}
    /\ status = NoStatus
    /\ archive = NoArchive
    /\ unpacked = "idle"
    /\ prior = NoPrior
    /\ temp_dir = NoOutdir
    /\ success_count = 0
    /\ total_count = 0

\* component.export(output_dir): the event records the component and the
\* value returned
ComponentCall ==
    /\ epc \in { ManagerOrder[i] : i \in 1..Len(ManagerOrder) }
    /\ LET r == ComponentExport(epc, outdir)
       IN /\ outdir' = r.dir
          /\ spawned' = r.cmds
          /\ status' = r.exit
          /\ events' = <<Event(IF r.ret THEN "true" ELSE "false", epc)>>
    /\ epc' = "called"
    /\ UNCHANGED <<success_count, total_count, temp_dir, impl, installed, machine, outdir0, manifest, fault, archive, unpacked, prior>>
    /\ UNCHANGED <<cfg, sensVars, defaultsVars, confVars, restoreVars, dotVars>>

(***************************************************************************)
(* The previews: preview_export and preview_restore of BackupManager and   *)
(* of the actions.                                                         *)
(***************************************************************************)
\* a preview that calls the component's export
PreviewOf_Exports(c, d) ==
    [ev   |-> <<Event("preview", c)>>,
     cmds |-> ManagerProbes(c),
     dir  |-> ComponentExport(c, d).dir]

\* component.preview_export(output_dir), and the lines of the action's
\* preview_export for component c: the line logged, the presence checks
\* started, and the directory left.  BackupManager asks only the enabled
\* components
PreviewOf(c, d) ==
    [ev   |-> IF impl = "action" \/ is_enabled(c) THEN <<Event("preview", c)>> ELSE <<>>,
     cmds |-> IF impl = "action" THEN SectionProbes(c) ELSE ManagerProbes(c),
     dir  |-> d]

\* the preview of the components from the i-th on
RECURSIVE PreviewFrom(_, _)
PreviewFrom(i, d) ==
    IF i > Len(ManagerOrder)
    THEN [ev |-> <<>>, cmds |-> {}, dir |-> d]
    ELSE LET r == PreviewOf(ManagerOrder[i], d)
             s == PreviewFrom(i + 1, r.dir)
         IN [ev |-> r.ev \o s.ev, cmds |-> r.cmds \cup s.cmds, dir |-> s.dir]

\* preview_export(output_dir)
PreviewExport ==
    /\ epc = "start"
    /\ LET r == PreviewFrom(1, outdir)
       IN /\ outdir' = r.dir
          /\ events' = <<Event("preview", "Environment")>> \o r.ev
          /\ spawned' = r.cmds
    /\ epc' = "previewed"
    /\ UNCHANGED <<success_count, total_count, temp_dir, impl, installed, machine, outdir0, manifest, fault, status, archive,
                   unpacked, prior>>
    /\ UNCHANGED <<cfg, sensVars, defaultsVars, confVars, restoreVars, dotVars>>

\* the components preview_restore describes: all of them for
\* BackupManager, all but VS Code for the action
PreviewOrder ==
    IF front = "manager" THEN ManagerOrder
    ELSE <<"Homebrew", "MAS", "Dotfiles", "Defaults", "LaunchAgents">>

\* the line preview_restore logs for component c: what it found, or that
\* the backup holds nothing of it
DescribeRestore(c) ==
    [k |-> IF Has(ArtifactOf(c)) THEN "info" ELSE "warning", id |-> c, yes |-> FALSE]

\* preview_restore(backup_dir)
PreviewRestore ==
    /\ rpc = "start"
    /\ IF ~isdir(bdir)
       THEN /\ rpc' = "nopreview"
            /\ trace' = trace \o LogEv("error", "Backup directory does not exist")
       ELSE /\ rpc' = "previewed"
            /\ trace' = trace \o [i \in 1..Len(PreviewOrder) |-> DescribeRestore(PreviewOrder[i])]
    /\ UNCHANGED <<cfg, front, tools, bdir, restored, sensVars, defaultsVars, confVars, dotVars, exportVars>>

\* the machines of the previews: everything there is to export, or nothing
PreviewMachines ==
    { m \in Machines : m.dots = m.domains_file /\ m.dots = m.la_dir /\ m.dots = m.dock
                        /\ ~m.stray }

(***************************************************************************)
(* BackupManager.unpack of core/backup.py, on its own.                     *)
(***************************************************************************)
UnpackManifest == "MANIFEST.json"

ArchiveMembers == { UnpackManifest, "ENVIRONMENT.txt", "Brewfile" }

\* the archive files unpack is handed: missing, intact, or damaged so that
\* reading it raises
Archives ==
    {NoArchive}
        \cup { [exists |-> TRUE, damaged |-> g, members |-> S] :
                 g \in BOOLEAN, S \in SUBSET ArchiveMembers }

\* the output directories unpack is handed: one that does not exist (as the
\* one tempfile.mkdtemp makes does not, before the call), an empty one, and
\* ones that hold files, a manifest of an earlier unpack among them
OutputDirs ==
    {NoOutdir}
        \cup { [isdir |-> TRUE, files |-> [p \in S |-> ArtifactSize(p)], dirs |-> {}] :
                 S \in SUBSET { UnpackManifest, "notes.txt" } }

\* tar.extractall(output_dir) of an archive that is read to its end
extractall(d, members) == WriteFiles(d, members)

\* os.path.exists(os.path.join(output_dir, "MANIFEST.json"))
HasManifest(d) == UnpackManifest \in DOMAIN d.files

UnpackStart ==
    /\ impl = "package"
    /\ epc = "unpack"
    /\ installed = {}
    /\ machine = [dots |-> FALSE, domains_file |-> FALSE, la_dir |-> FALSE, dock |-> FALSE,
                  stray |-> FALSE]
    /\ outdir \in OutputDirs
    /\ outdir0 = outdir
    /\ events = <<>>
    /\ manifest = NoManifest
    /\ fault = NoFault
    /\ spawned = {}
    /\ status = NoStatus
    /\ archive \in Archives
    /\ unpacked = "pending"
    /\ prior = NoPrior
    /\ temp_dir = NoOutdir
    /\ success_count = 0
    /\ total_count = 0

\* BackupManager.unpack(archive_path, output_dir): None for a missing
\* archive; otherwise the directory is created and the archive extracted
\* into it.  A damaged archive raises after some of its members have been
\* written, and the exception is turned into None.  After a complete
\* extraction the directory is returned when it holds MANIFEST.json
UnpackCall ==
    /\ epc = "unpack"
    /\ epc' = "unpacked"
    /\ IF ~archive.exists
       THEN unpacked' = "none" /\ outdir' = outdir
       ELSE \E part \in SUBSET archive.members :
              /\ archive.damaged \/ part = archive.members
              /\ outdir' = extractall(makedirs(outdir, ""), part)
              /\ unpacked' = IF ~archive.damaged /\ HasManifest(outdir') THEN "dir"
                             ELSE "none"
    /\ UNCHANGED <<success_count, total_count, temp_dir, impl, installed, machine, outdir0, events, manifest, fault, spawned,
                   status, archive, prior>>
    /\ UNCHANGED <<cfg, sensVars, defaultsVars, confVars, restoreVars, dotVars>>

(***************************************************************************)
(* BackupManager.export(output_dir, compress=True) of core/backup.py,      *)
(* followed by BackupManager.unpack of the archive it names.               *)
(***************************************************************************)
\* the loop over self.components, from the i-th on, writing into d
RECURSIVE ExportFrom(_, _)
ExportFrom(i, d) ==
    IF i > Len(ManagerOrder)
    THEN [dir |-> d, cmds |-> {}, total |-> 0, success |-> 0]
    ELSE LET c == ManagerOrder[i]
             calls == is_enabled(c) /\ is_available(c)
             r == IF calls THEN ComponentExport(c, d) ELSE Skipped(d)
             s == ExportFrom(i + 1, r.dir)
         IN [dir |-> s.dir, cmds |-> r.cmds \cup ManagerProbes(c) \cup s.cmds,
             total |-> s.total + IF calls THEN 1 ELSE 0,
             success |-> CountSuccess(s.success, calls /\ r.ret)]

\* _create_compressed_backup: every item of the tree, under its own name
tar_add(d) == [exists |-> TRUE, damaged |-> FALSE, members |-> DOMAIN d.files]

CompressStart ==
    /\ impl = "package"
    /\ epc = "compress"
    /\ installed \in SUBSET Tools
    /\ machine \in { m \in Machines : ~m.stray }
    /\ outdir \in { NoOutdir, makedirs(NoOutdir, "") }
    /\ outdir0 = outdir
    /\ events = <<>>
    /\ manifest = NoManifest
    /\ fault = NoFault
    /\ spawned = {}
    /\ status = NoStatus
    /\ archive = NoArchive
    /\ unpacked = "pending"
    /\ prior = NoPrior
    /\ temp_dir = NoOutdir
    /\ success_count = 0
    /\ total_count = 0

\* export(output_dir, compress=True): the tree is built in a directory of
\* tempfile.mkdtemp; the manifest and the README are added; the tree is
\* archived at output_dir + ".tar.gz" and removed.  An exception of
\* create_backup_manifest leaves the method before the archive is written
CompressedExport ==
    /\ epc = "compress"
    /\ LET env == WriteFiles(makedirs(NoOutdir, ""), {"ENVIRONMENT.txt"})
           tree == ExportFrom(1, env)
           m == create_backup_manifest(tree.dir, FALSE)
           full == WriteFiles(m.dir, {"README.md"})
       IN /\ spawned' = EnvCommands \cup tree.cmds
          /\ total_count' = tree.total
          /\ success_count' = 1 + tree.success
          /\ manifest' = [written |-> TRUE, entries |-> m.entries]
          /\ IF m.raises
             THEN /\ temp_dir' = m.dir
                  /\ archive' = archive
                  /\ events' = <<Event("raised", "")>>
             ELSE /\ temp_dir' = NoOutdir
                  /\ archive' = tar_add(full)
                  /\ events' = <<Event("returned", "")>>
    /\ epc' = "unpack"
    /\ UNCHANGED <<impl, installed, machine, outdir, outdir0, fault, status, unpacked, prior>>
    /\ UNCHANGED <<cfg, sensVars, defaultsVars, confVars, restoreVars, dotVars>>

(***************************************************************************)
(* The import of the defaults: the shell script DefaultsComponent.restore, *)
(* do_restore and defaults_import_dir hand to run, one command per step.   *)
(***************************************************************************)
\* the plists a backup's defaults/ can hold, in the order the glob yields them
BackupDomains == <<"com.apple.dock", "com.apple.finder", "com.example.gone">>

\* the domains `defaults domains` can print
MachineDomains == { "com.apple.dock", "com.apple.finder", "com.apple.dockfixup" }

\* for p in "$dir"/*.plist: the plists of S, sorted
Glob(S) == SelectSeq(BackupDomains, LAMBDA d : d \in S)

\* defaults domains | grep -q "$d": some registered name holds d
Grep(d) == \E r \in DOMAIN live : Contains(r, d)

NoSnapshots == [d \in {} |-> ""]

ImportStart ==
    /\ ipc = "start"
    /\ plists \in { Glob(S) : S \in SUBSET { BackupDomains[i] : i \in 1..Len(BackupDomains) } }
    /\ live \in { [d \in R |-> "live"] : R \in SUBSET MachineDomains }
    /\ snapshots = NoSnapshots
    /\ restarted = {}

ImportIdle ==
    /\ ipc = "idle"
    /\ plists = <<>>
    /\ live = NoSnapshots
    /\ snapshots = NoSnapshots
    /\ restarted = {}

\* run(import_cmd, check=False): a dry run prints the script and starts nothing
ImportBegin ==
    /\ ipc = "start"
    /\ ipc' = IF cfg.dry_run THEN "done" ELSE "loop"
    /\ UNCHANGED <<plists, live, snapshots, restarted, listing, entries>>
    /\ UNCHANGED <<cfg, sensVars, confVars, restoreVars, dotVars, exportVars>>

\* defaults domains | grep -q "$d" && defaults export "$d" "$HOME/defaults_backup_..." || true
\* ok: whether defaults export succeeds
SnapshotDomain ==
    /\ ipc = "loop" /\ plists # <<>>
    /\ LET d == Head(plists)
       IN \E ok \in BOOLEAN :
            snapshots' = IF Grep(d) /\ ok
                         THEN (d :> IF d \in DOMAIN live THEN live[d] ELSE "") @@ snapshots
                         ELSE snapshots
    /\ ipc' = "import"
    /\ UNCHANGED <<plists, live, restarted, listing, entries>>
    /\ UNCHANGED <<cfg, sensVars, confVars, restoreVars, dotVars, exportVars>>

\* defaults import "$d" "$p" || true
\* ok: whether defaults import succeeds
ImportDomain ==
    /\ ipc = "import"
    /\ LET d == Head(plists)
       IN \E ok \in BOOLEAN :
            live' = IF ok THEN (d :> "backup") @@ live ELSE live
    /\ plists' = Tail(plists)
    /\ ipc' = "loop"
    /\ UNCHANGED <<snapshots, restarted, listing, entries>>
    /\ UNCHANGED <<cfg, sensVars, confVars, restoreVars, dotVars, exportVars>>

\* killall Dock 2>/dev/null || true
KillDock ==
    /\ ipc = "loop" /\ plists = <<>>
    /\ \E ok \in BOOLEAN : restarted' = IF ok THEN restarted \cup {"Dock"} ELSE restarted
    /\ ipc' = "kill Finder"
    /\ UNCHANGED <<plists, live, snapshots, listing, entries>>
    /\ UNCHANGED <<cfg, sensVars, confVars, restoreVars, dotVars, exportVars>>

\* killall Finder 2>/dev/null || true; the script ends with status 0 and the
\* restore returns True
KillFinder ==
    /\ ipc = "kill Finder"
    /\ \E ok \in BOOLEAN : restarted' = IF ok THEN restarted \cup {"Finder"} ELSE restarted
    /\ ipc' = "done"
    /\ UNCHANGED <<plists, live, snapshots, listing, entries>>
    /\ UNCHANGED <<cfg, sensVars, confVars, restoreVars, dotVars, exportVars>>

(***************************************************************************)
(* The readers of a domain list file.                                      *)
(***************************************************************************)
\* actions/defaults.py _load_list: the line is stripped, then tested
RECURSIVE _load_list(_)
_load_list(f) ==
    IF f = <<>> THEN <<>>
    ELSE LET s == Strip(Head(f))
         IN (IF s = "" \/ StartsWith(s, "#") THEN <<>> ELSE <<s>>) \o _load_list(Tail(f))

\* DefaultsComponent.export: domain = line.strip(); kept if domain and not
\* domain.startswith("#")
RECURSIVE ExportDomains(_)
ExportDomains(f) ==
    IF f = <<>> THEN <<>>
    ELSE LET domain == Strip(Head(f))
         IN (IF domain # "" /\ ~StartsWith(domain, "#") THEN <<domain>> ELSE <<>>)
              \o ExportDomains(Tail(f))

\* DefaultsComponent.preview_export and do_export:
\* [line.strip() for line in f if line.strip() and not line.startswith("#")]
RECURSIVE StrippedLines(_)
StrippedLines(f) ==
    IF f = <<>> THEN <<>>
    ELSE LET line == Head(f)
         IN (IF Strip(line) # "" /\ ~StartsWith(line, "#") THEN <<Strip(line)>> ELSE <<>>)
              \o StrippedLines(Tail(f))

\* the lines a domain list can hold
ListLines ==
    { "com.apple.dock", "  com.apple.finder ", "", "   ", "# Dock", "  # indented",
      "\t#tab", "NSGlobalDomain" }

MaxLines == 3

RECURSIVE Files(_)
Files(n) ==
    IF n = 0 THEN { <<>> }
    ELSE Files(n - 1) \cup { Append(f, l) : f \in Files(n - 1), l \in ListLines }

NoEntries == [read |-> FALSE, load_list |-> <<>>, export |-> <<>>,
              preview_export |-> <<>>, do_export |-> <<>>]

ListStart ==
    /\ listing \in Files(MaxLines)
    /\ entries = NoEntries

ListIdle ==
    /\ listing = <<>>
    /\ entries = NoEntries

\* each reader reads the same file
ReadList ==
    /\ ~entries.read
    /\ entries' = [read |-> TRUE,
                   load_list |-> _load_list(listing),
                   export |-> ExportDomains(listing),
                   preview_export |-> StrippedLines(listing),
                   do_export |-> StrippedLines(listing)]
    /\ UNCHANGED <<ipc, plists, live, snapshots, restarted, listing>>
    /\ UNCHANGED <<cfg, sensVars, confVars, restoreVars, dotVars, exportVars>>

DefaultsIdle == ImportIdle /\ ListIdle

(***************************************************************************)
(* Specifications.  Each runs one part of the program; the variables of    *)
(* the other parts stay at their idle values.                              *)
(***************************************************************************)
SensInit ==
    SensStart /\ cfg = DefaultConfig /\ DefaultsIdle /\ ConfIdle /\ RestoreIdle /\ DotIdle /\ ExportIdle

SensNext == Classify

SpecSens == SensInit /\ [][SensNext]_vars

ConfInit ==
    /\ ConfStart
    /\ cfg \in { [DefaultConfig EXCEPT !.interactive = i] : i \in BOOLEAN }
    /\ SensIdle /\ DefaultsIdle /\ RestoreIdle /\ DotIdle /\ ExportIdle

ConfNext == ConfirmCall

SpecConfirm == ConfInit /\ [][ConfNext]_vars

RestoreInit ==
    RestoreStart /\ cfg \in ConfigChoices /\ SensIdle /\ DefaultsIdle /\ ConfIdle /\ DotIdle /\ ExportIdle

RestoreNext ==
    \/ ManagerRestoreBegin
    \/ ManagerRestoreComponent
    \/ DoRestoreBegin
    \/ DoRestoreSection

SpecRestore == RestoreInit /\ [][RestoreNext]_vars

DotInit ==
    DotStart /\ cfg = DefaultConfig /\ SensIdle /\ DefaultsIdle /\ ConfIdle /\ RestoreIdle /\ ExportIdle

DotNext ==
    \/ DotExportManager
    \/ DotExportAction
    \/ DotRestoreManager
    \/ DotRestoreAction
    \/ EditFile
    \/ FreshHome
    \/ Tick

SpecDot == DotInit /\ [][DotNext]_vars

ExportInit ==
    ExportStart /\ cfg \in ExportConfigs /\ SensIdle /\ DefaultsIdle /\ ConfIdle /\ RestoreIdle /\ DotIdle

ExportNext ==
    \/ ExportBegin
    \/ ExportComponent
    \/ ExportFinish

SpecExport == ExportInit /\ [][ExportNext]_vars

ComponentInit ==
    /\ ComponentStart /\ cfg \in ComponentConfigs
    /\ SensIdle /\ DefaultsIdle /\ ConfIdle /\ RestoreIdle /\ DotIdle

ComponentNext == ComponentCall

SpecComponent == ComponentInit /\ [][ComponentNext]_vars

UnpackInit ==
    UnpackStart /\ cfg = DefaultConfig /\ SensIdle /\ DefaultsIdle /\ ConfIdle /\ RestoreIdle /\ DotIdle

UnpackNext == UnpackCall

SpecUnpack == UnpackInit /\ [][UnpackNext]_vars

\* an export in which one thing goes wrong: a tool exits non-zero, or the
\* user presses Ctrl-C at the prompt, during an output-capturing call or
\* during the run of a component
FailingTools == { "Homebrew", "MAS", "VSCode" }

InterruptPoints ==
    { "confirm", "env", "domains" } \cup { ManagerOrder[i] : i \in 1..Len(ManagerOrder) }

Faults ==
    {NoFault}
        \cup { [at |-> c, kind |-> "nonzero"] : c \in FailingTools }
        \cup { [at |-> p, kind |-> "interrupt"] : p \in InterruptPoints }

FaultConfigs ==
    { [DefaultConfig EXCEPT !.dry_run = d, !.enable_mas = TRUE, !.enable_vscode = TRUE,
                            !.enable_defaults = TRUE, !.enable_launchagents = TRUE] :
        d \in BOOLEAN }

FaultInit ==
    /\ ExportMachine /\ fault \in Faults
    /\ cfg \in FaultConfigs
    /\ SensIdle /\ DefaultsIdle /\ ConfIdle /\ RestoreIdle /\ DotIdle

FaultNext ==
    \/ ExportBegin
    \/ ExportComponent
    \/ ExportFinish

SpecFault == FaultInit /\ [][FaultNext]_vars

\* the machines of the paired runs: a tool may exit non-zero, the same in
\* both runs
PairInit ==
    /\ ExportMachine /\ outdir = NoOutdir
    /\ fault \in { g \in Faults : g.kind # "interrupt" }
    /\ cfg \in FaultConfigs
    /\ SensIdle /\ DefaultsIdle /\ ConfIdle /\ RestoreIdle /\ DotIdle

PairNext ==
    \/ ExportBegin
    \/ ExportComponent
    \/ ExportFinish
    \/ Rerun

SpecPair == PairInit /\ [][PairNext]_vars

PreviewInit ==
    /\ ExportStart /\ machine \in PreviewMachines
    /\ RestoreStart /\ tools = {}
    /\ cfg \in ComponentConfigs
    /\ SensIdle /\ DefaultsIdle /\ ConfIdle /\ DotIdle

PreviewNext ==
    \/ PreviewExport
    \/ PreviewRestore

SpecPreview == PreviewInit /\ [][PreviewNext]_vars

ImportInit ==
    /\ ImportStart /\ ListIdle
    /\ cfg \in { [DefaultConfig EXCEPT !.dry_run = dry] : dry \in BOOLEAN }
    /\ SensIdle /\ ConfIdle /\ RestoreIdle /\ DotIdle /\ ExportIdle

ImportNext ==
    \/ ImportBegin
    \/ SnapshotDomain
    \/ ImportDomain
    \/ KillDock
    \/ KillFinder

SpecImport == ImportInit /\ [][ImportNext]_vars

ListInit ==
    /\ ListStart /\ ImportIdle
    /\ cfg = DefaultConfig
    /\ SensIdle /\ ConfIdle /\ RestoreIdle /\ DotIdle /\ ExportIdle

ListNext == ReadList

SpecList == ListInit /\ [][ListNext]_vars

CompressInit ==
    /\ CompressStart
    /\ cfg \in ExportConfigs
    /\ SensIdle /\ DefaultsIdle /\ ConfIdle /\ RestoreIdle /\ DotIdle

CompressNext ==
    \/ CompressedExport
    \/ UnpackCall

SpecCompress == CompressInit /\ [][CompressNext]_vars

ManifestInit ==
    ManifestStart /\ cfg = DefaultConfig /\ SensIdle /\ DefaultsIdle /\ ConfIdle /\ RestoreIdle /\ DotIdle

ManifestNext == ManifestCall

SpecManifest == ManifestInit /\ [][ManifestNext]_vars

VerifyInit ==
    VerifyStart /\ cfg = DefaultConfig /\ SensIdle /\ DefaultsIdle /\ ConfIdle /\ DotIdle /\ ExportIdle

VerifyNext == VerifyCall

SpecVerify == VerifyInit /\ [][VerifyNext]_vars

(***************************************************************************)
(* C5: both implementations of the sensitivity predicate answer true for   *)
(* every path that contains, in any letter case, one of the listed         *)
(* sensitive substrings, and false for the ordinary path ~/.zshrc.         *)
(***************************************************************************)
C5_BothPredicatesMatchListed ==
    verdict.called =>
        /\ (\E pat \in ListedSensitive : Contains(Lower(probe), pat))
              => (verdict.utils /\ verdict.core)
        /\ (probe = "~/.zshrc") => (~verdict.utils /\ ~verdict.core)

(***************************************************************************)
(* C6: during restore of Homebrew, MAS and VSCode no command that changes  *)
(* the live system runs unless a prompt for that action was issued before  *)
(* it and answered yes, or the run is non-interactive; a non-interactive   *)
(* run issues no prompt and runs every such action that has its artifact.  *)
(***************************************************************************)
MutatingCommands ==
    { "install Homebrew", "brew bundle", "brew install mas", "mas install",
      "code --install-extension" }

\* the prompt that asks for a command
GatePrompt(cmd) ==
    CASE cmd = "install Homebrew"         -> "Install Homebrew?"
      [] cmd = "brew bundle"              -> "Execute brew bundle install?"
      [] cmd = "brew install mas"         -> "Install MAS list now?"
      [] cmd = "mas install"              -> "Install MAS list now?"
      [] cmd = "code --install-extension" -> "Start installing VS Code extensions?"

Ran(cmd) == \E i \in 1..Len(trace) : trace[i].k = "run" /\ trace[i].id = cmd

GatedAt(i) ==
    \E j \in 1..(i - 1) :
        /\ trace[j].k = "prompt"
        /\ trace[j].id = GatePrompt(trace[i].id)
        /\ trace[j].yes

C6_NonInteractiveProceeds ==
    (rpc = "done" /\ ~cfg.interactive) =>
        /\ \A i \in 1..Len(trace) : trace[i].k # "prompt"
        /\ Has("Brewfile") => Ran("brew bundle")
        /\ (Has("mas.list") /\ (front = "manager" \/ cfg.enable_mas))
              => Ran("mas install")
        /\ (Has("vscode_extensions.txt") /\ "code" \in tools
              /\ (front = "manager" \/ cfg.enable_vscode))
              => Ran("code --install-extension")

C6_MutationsGated ==
    /\ \A i \in 1..Len(trace) :
          (trace[i].k = "run" /\ trace[i].id \in MutatingCommands)
              => (~cfg.interactive \/ GatedAt(i))
    /\ C6_NonInteractiveProceeds

(***************************************************************************)
(* C7: Logger.confirm answers yes without reading input when the run is    *)
(* not interactive; when it is interactive it reads one line and answers   *)
(* yes exactly when the line, trimmed and lower-cased, is y or yes, and no *)
(* for every other line and at end of input.                               *)
(***************************************************************************)
\* the typed lines that are a yes: y or yes in any letter case, padded
YesLines ==
    { l \o w \o r : l \in AnswerPads, r \in AnswerPads,
                    w \in { "y", "Y", "yes", "YES", "yEs" } }

C7_ConfirmResolution ==
    answer.called =>
        /\ ~cfg.interactive =>
              /\ answer.yes /\ answer.reads = 0
              /\ ~answer.eof => stdin = <<answer.line>>
        /\ cfg.interactive =>
              (answer.yes <=> (~answer.eof /\ answer.line \in YesLines))

\* an interactive confirmation that is a yes only after trimming and lower-casing
C7_Witness ==
    /\ answer.called /\ cfg.interactive /\ answer.yes
    /\ answer.line \notin YesAnswers

\* a non-interactive confirmation that left a pending line unread
C7_WitnessNonInteractive ==
    answer.called /\ ~cfg.interactive /\ answer.yes /\ Len(stdin) = 1

(***************************************************************************)
(* C1: across any sequence of dotfiles restores into one home directory,   *)
(* restores within the same clock second included, every content a home    *)
(* file held just before a restore overwrote it is still present, either   *)
(* in that file or in a file named <that file>.bak.<timestamp>.            *)
(***************************************************************************)
IsBakOf(q, p) ==
    /\ Len(q) = Len(p) + 5 + 14
    /\ StartsWith(q, p \o ".bak.")
    /\ \A i \in (Len(p) + 6)..Len(q) : Contains(Digits, CharAt(q, i))

C1_NoContentLost ==
    \A s \in shadowed :
        \/ (s[1] \in DOMAIN home /\ home[s[1]] = s[2])
        \/ \E q \in DOMAIN home : IsBakOf(q, s[1]) /\ home[q] = s[2]

(***************************************************************************)
(* C2: a confirmed restore ends with every file of the archive holding the *)
(* archive's content at its destination in the home directory, and, for    *)
(* every such file that existed there before, with a sibling               *)
(* <file>.bak.<timestamp> holding the content the file had before.         *)
(***************************************************************************)
C2_NonDestructiveRestore ==
    (last.op = "restore" /\ last.yes) =>
        \A item \in DOMAIN dotball.files :
            LET dst == HomeDir \o "/" \o item
            IN /\ dst \in DOMAIN home /\ home[dst] = dotball.files[item]
               /\ dst \in DOMAIN last.pre =>
                     \E q \in DOMAIN home :
                         IsBakOf(q, dst) /\ home[q] = last.pre[dst]

(***************************************************************************)
(* C3: exporting a home directory and restoring the archive, confirmed,    *)
(* onto a fresh home directory recreates every exported catalog file at    *)
(* the same path relative to the home directory with identical content,    *)
(* and creates no file named id_rsa.                                       *)
(***************************************************************************)
\* the files of the catalog entries the export let through
ExportedCatalog(tree, via) ==
    { p \in DOMAIN tree :
        \E i \in (IF via = "manager" THEN _get_secure_dotfile_list(tree)
                                     ELSE get_secure_dotfile_list(tree)) :
            LET src == expanduser(DOT_LIST[i])
            IN (p = src \/ StartsWith(p, src \o "/")) /\ ~is_sensitive_file(p) }

C3_RoundTrip ==
    (last.op = "restore" /\ last.yes /\ last.pre = EmptyTree /\ snap.taken) =>
        /\ \A p \in ExportedCatalog(snap.home, snap.via) :
              p \in DOMAIN home /\ home[p] = snap.home[p]
        /\ \A q \in DOMAIN home : ~Contains(q, "id_rsa")

(***************************************************************************)
(* C4: the archive an export leaves holds no file whose path satisfies the *)
(* sensitivity predicate, files inside catalog directories included.       *)
(***************************************************************************)
C4_NoSensitiveInArchive ==
    dotball.exists =>
        \A item \in DOMAIN dotball.files :
            ~(IF snap.via = "manager" THEN _is_sensitive_file(item)
                                      ELSE is_sensitive_file(item))

(***************************************************************************)
(* C8: an export runs a component's export if and only if the component is *)
(* enabled by configuration and its tool is available, in the one fixed    *)
(* order of the components; a component that fails either check is not     *)
(* exported and leaves nothing in the output directory.                    *)
(***************************************************************************)
ExportRan(c) == \E i \in 1..Len(events) : events[i] = Event("export", c)

\* what do_export needs on the machine before a section has work to do
HasSource(c) ==
    CASE c = "Defaults"     -> machine.domains_file
      [] c = "LaunchAgents" -> machine.la_dir
      [] OTHER              -> TRUE

OwnedFiles(c) ==
    CASE c = "Homebrew"     -> {"Brewfile", "HOMEBREW_VERSION.txt"}
      [] c = "MAS"          -> {"mas.list"}
      [] c = "VSCode"       -> {"vscode_extensions.txt"}
      [] c = "Dotfiles"     -> {"dotfiles.tar.gz"}
      [] c = "Defaults"     -> { Plist(x) : x \in Domains }
      [] c = "LaunchAgents" -> AgentPlists

OwnedDirs(c) ==
    CASE c = "Dotfiles"     -> {"dotfiles"}
      [] c = "Defaults"     -> {"defaults"}
      [] c = "LaunchAgents" -> {"LaunchAgents"}
      [] OTHER              -> {}

ExportsInOrder ==
    \A i, j \in 1..Len(events) :
        (i < j /\ events[i].k = "export" /\ events[j].k = "export")
            => PositionOf(ManagerOrder, events[i].c) < PositionOf(ManagerOrder, events[j].c)

C8_ExportIffEnabledAvailable ==
    (epc \in {"returned", "raised"}) =>
        /\ ExportsInOrder
        /\ \A c \in { ManagerOrder[i] : i \in 1..Len(ManagerOrder) } :
              /\ ExportRan(c) => (is_enabled(c) /\ is_available(c))
              /\ (is_enabled(c) /\ is_available(c) /\ (impl = "action" => HasSource(c)))
                    => ExportRan(c)
              /\ ~(is_enabled(c) /\ is_available(c)) =>
                    /\ OwnedFiles(c) \cap DOMAIN outdir.files = {}
                    /\ OwnedDirs(c) \cap outdir.dirs = {}

\* C8, for BackupManager.export alone
C8_ManagerExportIffEnabledAvailable == (impl # "action") => C8_ExportIffEnabledAvailable

(***************************************************************************)
(* C9: in every export run ENVIRONMENT.txt is written before any           *)
(* component's export starts, the manifest and the README are generated    *)
(* only after the last component's export, and the manifest lists every    *)
(* file that is in the backup directory when export returns, other than    *)
(* the manifest itself.                                                    *)
(***************************************************************************)
ManifestPaths == { EntryPath(e) : e \in manifest.entries }

\* the ordering half of C9
C9_EnvironmentFirstManifestLast ==
    /\ \A i \in 1..Len(events) :
          events[i].k = "export" => \E j \in 1..(i - 1) : events[j].k = "env"
    /\ \A i \in 1..Len(events) :
          events[i].k \in {"manifest", "readme"} =>
              \A j \in (i + 1)..Len(events) : events[j].k # "export"
    /\ (epc \in { ManagerOrder[i] : i \in 1..Len(ManagerOrder) })
          => "ENVIRONMENT.txt" \in DOMAIN outdir.files

C9_ManifestReflectsFinalState ==
    /\ C9_EnvironmentFirstManifestLast
    /\ (impl # "core" /\ epc = "returned") =>
          /\ manifest.written
          /\ ManifestPaths = DOMAIN outdir.files \ {ManifestName}

(***************************************************************************)
(* C10: for any backup directory tree, the file entries that               *)
(* create_backup_manifest writes are exactly the files under the           *)
(* directory, at every depth, except the manifest file itself; a file that *)
(* shares the manifest's name in a subdirectory is listed.                 *)
(***************************************************************************)
C10_ManifestListsEveryFile ==
    (epc = "called") =>
        { EntryPath(e) : e \in manifest.entries } = DOMAIN outdir.files \ {ManifestName}

(***************************************************************************)
(* C11: verify_backup reports success exactly when the directory exists,   *)
(* holds ENVIRONMENT.txt, and the summed size of the files under it is at  *)
(* least 1024 bytes; in every other case it reports failure.               *)
(***************************************************************************)
C11_VerifyExactly ==
    (rpc \in {"verified", "rejected"}) =>
        ((rpc = "verified") <=>
            /\ bdir.isdir
            /\ ExistsIn(bdir, "ENVIRONMENT.txt")
            /\ SumSizes(bdir.files, Readable(bdir)) >= 1024)

\* C11, for directories whose files can all be read
C11_VerifyReadable ==
    (rpc \in {"verified", "rejected"} /\ Readable(bdir) = DOMAIN bdir.files) =>
        ((rpc = "verified") <=>
            /\ bdir.isdir
            /\ "ENVIRONMENT.txt" \in DOMAIN bdir.files
            /\ SumSizes(bdir.files, DOMAIN bdir.files) >= 1024)

(***************************************************************************)
(* C12: restore from a path that is not an existing directory fails fast:  *)
(* an error is logged, the run ends in failure, and no component restore,  *)
(* no prompt and no command is executed.                                   *)
(***************************************************************************)
C12_MissingDirFailsFast ==
    (~bdir.isdir /\ rpc # "start") =>
        /\ rpc = "nodir"
        /\ trace = LogEv("error", "Backup directory does not exist")
        /\ restored = {}

C12_Witness == ~bdir.isdir /\ rpc = "nodir" /\ front = "action"

C12_WitnessManager == ~bdir.isdir /\ rpc = "nodir" /\ front = "manager"

(***************************************************************************)
(* C13: when an interactive restore is run on an existing backup directory *)
(* that fails verification, a warning and a continue / abort prompt are    *)
(* issued before any component is restored; on abort no component restore  *)
(* action takes place, on continue the components are restored as usual.   *)
(* Restore never proceeds on a failing backup without that prompt, and     *)
(* never aborts on its own.                                                *)
(***************************************************************************)
ContinuePrompt == "Backup verification failed, continue with restore?"

C13_FailingBackupPrompted ==
    (cfg.interactive /\ bdir.isdir /\ ~verify_backup(bdir) /\ rpc # "start") =>
        /\ Len(trace) >= 2
        /\ trace[1].k = "warning"
        /\ trace[2].k = "prompt" /\ trace[2].id = ContinuePrompt
        /\ ~trace[2].yes => (rpc = "cancelled" /\ Len(trace) = 2 /\ restored = {})
        /\ trace[2].yes => rpc # "cancelled"

\* C13, for do_restore alone
C13_ActionFailingBackupPrompted == (front = "action") => C13_FailingBackupPrompted

(***************************************************************************)
(* C14: with dry_run set, no step of an export starts an external command: *)
(* not run, not the output-capturing calls, not the tool-presence checks.  *)
(***************************************************************************)
C14_DryRunSpawnsNothing == cfg.dry_run => spawned = {}

\* C14, for run alone: with dry_run set, every command that is started is
\* one of a presence check or of an output-capturing call
Capturing ==
    EnvCommands \cup {"defaults domains"}
        \cup { Probe(c) : c \in {"Homebrew", "MAS", "VSCode", "Defaults"} }

C14_DryRunRunSpawnsNothing == cfg.dry_run => spawned \subseteq Capturing

(***************************************************************************)
(* C15: with dry_run set, an export creates no file and no directory: the  *)
(* output directory is, at every step, what it was before the export.      *)
(***************************************************************************)
C15_DryRunWritesNothing == cfg.dry_run => outdir = outdir0

\* C15, for the commands alone: with dry_run set, what an export adds is
\* made by the program itself, with os.makedirs or open()
SelfMade == { "ENVIRONMENT.txt", "MANIFEST.txt", "README.md" }

C15_DryRunCommandsWriteNothing ==
    cfg.dry_run => DOMAIN outdir.files \subseteq DOMAIN outdir0.files \cup SelfMade

(***************************************************************************)
(* C16: a tool that exits non-zero during the export of one component      *)
(* never terminates the run.                                               *)
(***************************************************************************)
C16_FailureDoesNotTerminate == (fault.kind = "nonzero") => epc # "exited"

\* C16, for do_export alone
C16_ActionFailureDoesNotTerminate == (impl = "action") => C16_FailureDoesNotTerminate

(***************************************************************************)
(* C17: a user interrupt during a run, an output-capturing call or a       *)
(* confirmation is caught, logged as a warning, and ends the program with  *)
(* status 130.                                                             *)
(***************************************************************************)
C17_InterruptExits130 ==
    (fault.kind = "interrupt" /\ epc \in {"exited", "interrupted"}) =>
        /\ epc = "exited"
        /\ status = 130
        /\ events # <<>>
        /\ events[Len(events)] = Event("warning", "Operation interrupted by user")

\* C17, for an interrupt during run alone
C17_RunInterruptExits130 ==
    (fault.at \in { ManagerOrder[i] : i \in 1..Len(ManagerOrder) }) => C17_InterruptExits130

(***************************************************************************)
(* C18: unpack returns the extraction directory only when the archive      *)
(* exists, extracts without error and itself delivers the manifest; when   *)
(* it returns None, nothing it extracted is left in the output directory.  *)
(* A manifest that was in the output directory beforehand does not make an *)
(* archive without one valid.                                              *)
(***************************************************************************)
C18_UnpackValidatesArchive ==
    (epc = "unpacked") =>
        /\ (unpacked = "dir") <=>
              (archive.exists /\ ~archive.damaged /\ UnpackManifest \in archive.members)
        /\ (unpacked = "none") => outdir.files = outdir0.files

\* C18, as far as it holds: the directory is returned only for an archive
\* that exists and extracts without error, and only when the directory then
\* holds a manifest
C18_ReturnedDirHoldsManifest ==
    (unpacked = "dir") =>
        /\ archive.exists /\ ~archive.damaged
        /\ HasManifest(outdir)
        /\ archive.members \subseteq DOMAIN outdir.files

\* C18: a stale manifest alone never validates an archive
C18_StaleManifestRejected ==
    (epc = "unpacked" /\ UnpackManifest \notin archive.members) => unpacked = "none"

\* C18: a rejected archive leaves the output directory as it was
C18_RejectedLeavesNothing ==
    (epc = "unpacked" /\ unpacked = "none") => outdir.files = outdir0.files

(***************************************************************************)
(* C19: the restore of a component whose artifact the backup directory     *)
(* does not hold does nothing: it asks nothing, runs nothing, installs     *)
(* nothing and does not count as restored.                                 *)
(***************************************************************************)
RestoresWithoutArtifact ==
    /\ rpc \in { ManagerOrder[i] : i \in 1..Len(ManagerOrder) }
    /\ ~Has(ArtifactOf(rpc))

C19_MissingArtifactNoAction ==
    [][RestoresWithoutArtifact => UNCHANGED <<trace, restored, tools>>]_vars

\* C19, for the components of BackupManager alone
C19_ManagerMissingArtifactNoAction ==
    [][(front = "manager" /\ RestoresWithoutArtifact)
          => UNCHANGED <<trace, restored, tools>>]_vars

\* C19, for every section of do_restore but the first
C19_SectionMissingArtifactNoAction ==
    [][(front = "action" /\ rpc # "Homebrew" /\ RestoresWithoutArtifact)
          => UNCHANGED <<trace, restored, tools>>]_vars

(***************************************************************************)
(* C20: a component's export called while is_available() is false returns  *)
(* false and leaves the output directory exactly as it was; an export      *)
(* returns true only if it captured data, and an export that returns false *)
(* has written nothing.                                                    *)
(***************************************************************************)
Called == epc = "called"

Returned(v) == events[1].k = v

\* the export left a file of the component that was not there before
Captured ==
    \E p \in OwnedFiles(events[1].c) :
        p \in DOMAIN outdir.files /\ p \notin DOMAIN outdir0.files

C20_ExportAllOrNothing ==
    Called =>
        /\ ~is_available(events[1].c) => (Returned("false") /\ outdir = outdir0)
        /\ Returned("true") => Captured
        /\ Returned("false") => outdir = outdir0

\* C20, for a component that is not available
C20_UnavailableWritesNothing ==
    (Called /\ ~is_available(events[1].c)) => (Returned("false") /\ outdir = outdir0)

\* C20: true only with data, outside dry_run and when every command that
\* is run succeeds and finds something to write
C20_TrueOnlyWithData ==
    (Called /\ ~cfg.dry_run /\ Returned("true")) => Captured

\* C20: false only without writes
C20_FalseWritesNothing ==
    (Called /\ Returned("false")) => outdir = outdir0

(***************************************************************************)
(* C21: of two exports on the same machine that differ in one component's  *)
(* enable flag, the artifacts of every other component are the same: the   *)
(* same files with the same content, the same directories.                 *)
(***************************************************************************)
ArtifactsOf(c, d) ==
    [files |-> [p \in OwnedFiles(c) \cap DOMAIN d.files |-> d.files[p]],
     dirs  |-> OwnedDirs(c) \cap d.dirs]

C21_OtherComponentsUnaffected ==
    (prior.done /\ Ended) =>
        \A c \in { ManagerOrder[i] : i \in 1..Len(ManagerOrder) } \ { ComponentOf(prior.flag) } :
            ArtifactsOf(c, outdir) = ArtifactsOf(c, prior.outdir)

\* C21, on a machine where every tool that is started succeeds
C21_UnaffectedWhenToolsSucceed == (fault = NoFault) => C21_OtherComponentsUnaffected

(***************************************************************************)
(* C22: preview_export and preview_restore call no component's export or   *)
(* restore and leave the backup directory, the output directory, the home  *)
(* directory and the installed tools unchanged; preview_restore on a path  *)
(* that is not a directory logs an error and describes nothing.            *)
(***************************************************************************)
ExportPreviewed == epc = "start" /\ epc' = "previewed"

RestorePreviewed == rpc = "start" /\ rpc' \in { "previewed", "nopreview" }

C22_PreviewChangesNothing ==
    [][/\ (ExportPreviewed \/ RestorePreviewed)
            => UNCHANGED <<outdir, bdir, home, dotball, tools, installed, restored, manifest>>
       /\ ExportPreviewed
            => \A i \in 1..Len(events') : events'[i].k = "preview"
       /\ RestorePreviewed
            => /\ \A i \in 1..Len(trace') : trace'[i].k \in { "info", "warning", "error" }
               /\ (rpc' = "nopreview") <=> ~bdir.isdir
               /\ (rpc' = "nopreview")
                     => trace' = LogEv("error", "Backup directory does not exist")]_vars

C22_Witness ==
    /\ epc = "previewed" /\ Len(events) > 1 /\ spawned # {}
    /\ rpc = "previewed" /\ \E i \in 1..Len(trace) : trace[i].k = "info"

C22_WitnessNotADirectory == rpc = "nopreview" /\ ~bdir.isdir

(***************************************************************************)
(* C23: restore visits the components in the order export uses, one after  *)
(* the other: it starts with the first component of that order, and the    *)
(* component visited after c is the one that follows c in that order.      *)
(***************************************************************************)
IsComponent(c) == c \in { ManagerOrder[i] : i \in 1..Len(ManagerOrder) }

C23_RestoreInExportOrder ==
    [][/\ (rpc = "start" /\ IsComponent(rpc')) => rpc' = ManagerOrder[1]
       /\ (IsComponent(rpc) /\ IsComponent(rpc'))
            => PositionOf(ManagerOrder, rpc') = PositionOf(ManagerOrder, rpc) + 1
       /\ (IsComponent(rpc) /\ rpc' = "done") => rpc = ManagerOrder[Len(ManagerOrder)]]_vars

\* C23, for BackupManager.restore alone
C23_ManagerRestoreInExportOrder ==
    [][(front = "manager") =>
         /\ (rpc = "start" /\ IsComponent(rpc')) => rpc' = ManagerOrder[1]
         /\ (IsComponent(rpc) /\ IsComponent(rpc'))
              => PositionOf(ManagerOrder, rpc') = PositionOf(ManagerOrder, rpc) + 1
         /\ (IsComponent(rpc) /\ rpc' = "done") => rpc = ManagerOrder[Len(ManagerOrder)]]_vars

(***************************************************************************)
(* C24: an interrupt during the compression of the dotfiles never leaves a *)
(* truncated archive under the final name: at every state dotfiles.tar.gz  *)
(* is absent from the output directory or complete.                        *)
(***************************************************************************)
Complete(d, p) == d.files[p] = ArtifactSize(p)

C24_ArchiveAbsentOrComplete ==
    ("dotfiles.tar.gz" \in DOMAIN outdir.files) => Complete(outdir, "dotfiles.tar.gz")

\* C24, for the runs that are not interrupted
C24_UninterruptedArchiveComplete ==
    (fault.kind # "interrupt") => C24_ArchiveAbsentOrComplete

(***************************************************************************)
(* C25: the export of the defaults writes a plist only for a listed domain *)
(* that is registered on the machine; for a listed domain that is not      *)
(* registered no file appears and no `defaults export` is started.         *)
(***************************************************************************)
C25_OnlyRegisteredDomainsExported ==
    \A x \in Domains \ Registered :
        /\ Plist(x) \notin DOMAIN outdir.files
        /\ ("defaults export " \o x) \notin spawned

\* C25, for BackupManager.export
C25_ManagerOnlyRegisteredDomainsExported ==
    (impl = "core") => C25_OnlyRegisteredDomainsExported
(***************************************************************************)
(* C26: the import of the defaults never overwrites the value of a         *)
(* registered domain unless a snapshot of that value has been saved to the *)
(* home directory before.                                                  *)
(***************************************************************************)
C26_SnapshotBeforeImport ==
    [][\A d \in DOMAIN live :
          (live'[d] # live[d]) => (d \in DOMAIN snapshots /\ snapshots[d] = live[d])]_vars

\* C26: Dock and Finder are restarted only after the last import
C26_RestartAfterLastImport ==
    (restarted # {}) => (plists = <<>>)

\* C26: the script reaches its end whether or not killall succeeds
C26_KillFailureDoesNotFail ==
    [][(ipc = "kill Finder") => (ipc' = "done")]_vars

(***************************************************************************)
(* C27: every reader of a domain list yields the same entries: the         *)
(* stripped non-blank lines whose first non-blank character is not #.      *)
(***************************************************************************)
RECURSIVE ListedEntries(_)
ListedEntries(f) ==
    IF f = <<>> THEN <<>>
    ELSE LET s == Strip(Head(f))
         IN (IF s = "" \/ CharAt(s, 1) = "#" THEN <<>> ELSE <<s>>) \o ListedEntries(Tail(f))

C27_ReadersAgree ==
    entries.read =>
        /\ entries.load_list = ListedEntries(listing)
        /\ entries.export = ListedEntries(listing)
        /\ entries.preview_export = ListedEntries(listing)
        /\ entries.do_export = ListedEntries(listing)

\* C27, for the two readers that strip a line before they test it
C27_StrippingReadersAgree ==
    entries.read =>
        /\ entries.load_list = ListedEntries(listing)
        /\ entries.export = ListedEntries(listing)

\* C27, for the files without an indented comment
C27_ReadersAgreeWithoutIndentedComment ==
    (entries.read /\ \A i \in 1..Len(listing) :
                        StartsWith(Strip(listing[i]), "#") => StartsWith(listing[i], "#"))
        => C27_ReadersAgree
(***************************************************************************)
(* C28: a compressed export followed by unpack is a round trip: the export *)
(* writes an archive and discards its tree, and unpack of that archive     *)
(* returns a directory that holds ENVIRONMENT.txt, the manifest and the    *)
(* README.                                                                 *)
(***************************************************************************)
C28_CompressedExportRoundTrip ==
    (epc = "unpacked") =>
        /\ archive.exists
        /\ temp_dir = NoOutdir
        /\ unpacked = "dir"
        /\ {"ENVIRONMENT.txt", ManifestName, "README.md"} \subseteq DOMAIN outdir.files

\* C28: unpack accepts the tree the export has built, archived as it stands
C28_ExportedTreeAccepted ==
    (epc = "unpack") => HasManifest(extractall(makedirs(outdir, ""), DOMAIN temp_dir.files))

(***************************************************************************)
(* C29: the restore of a component whose is_enabled() is false changes     *)
(* nothing of the live system: it runs no command and installs no tool.    *)
(***************************************************************************)
CommandsRun(t) == SelectSeq(t, LAMBDA e : e.k = "run")

DisabledRestoreStep == IsComponent(rpc) /\ ~is_enabled(rpc)

C29_DisabledComponentRestoresNothing ==
    [][DisabledRestoreStep
         => (CommandsRun(trace') = CommandsRun(trace) /\ tools' = tools)]_vars

\* C29, for do_restore
C29_ActionDisabledComponentRestoresNothing ==
    [][(front = "action" /\ DisabledRestoreStep)
         => (CommandsRun(trace') = CommandsRun(trace) /\ tools' = tools)]_vars
(***************************************************************************)
(* C30: in BackupManager.export success_count <= total_count + 1 at every  *)
(* step, total_count is the number of components visited so far that were  *)
(* enabled and available, and a run that returns returns true, the         *)
(* environment step having been counted as one success.                    *)
(***************************************************************************)
\* return success_count > 0
ReturnValue == success_count > 0

\* the components the loop has finished with
Visited ==
    IF IsComponent(epc)
    THEN { ManagerOrder[j] : j \in 1..(PositionOf(ManagerOrder, epc) - 1) }
    ELSE IF epc \in {"manifest", "returned", "raised"}
    THEN { ManagerOrder[j] : j \in 1..Len(ManagerOrder) }
    ELSE {}

C30_ExportCounters ==
    (impl \in {"core", "package"}) =>
        /\ success_count <= total_count + 1
        /\ (IsComponent(epc) \/ epc \in {"manifest", "returned", "raised"})
             => total_count
                  = Cardinality({ c \in Visited : is_enabled(c) /\ is_available(c) })
        /\ (epc = "returned") => ReturnValue

\* a run of core.py in which a component's export was called, none reported
\* success, and the export has returned
C30_Witness ==
    /\ impl = "core"
    /\ epc = "returned"
    /\ total_count > 0
    /\ success_count = 1
    /\ ReturnValue
====
